---- MODULE Spec2Model ----
\* NetWatcher (dfelicia/netwatcher-py): the location matcher
\* (src/location/matching.py), the settings applier (src/location/settings.py,
\* src/network/configuration.py) and the debounced change reactor
\* (src/watcher.py), modelled as state machines.
EXTENDS Integers, Sequences, FiniteSets, TLC

\* ---------------------------------------------------------------------------
\* Bounds of the model
\* ---------------------------------------------------------------------------
MaxProfiles == 3
MaxNotifs == 2

\* ---------------------------------------------------------------------------
\* Values
\* ---------------------------------------------------------------------------
\* Python's None for an optional string (get_current_ssid returns None when
\* there is no Wi-Fi association).
NoneVal == "<None>"

\* Python truthiness of an optional string: None and "" are falsy.
Truthy(s) == s \notin {NoneVal, ""}

\* config.DEFAULT_NTP_SERVER as matching.py spells it.
PublicNtp == "time.apple.com"

Range(s) == {s[i] : i \in 1..Len(s)}

\* ---------------------------------------------------------------------------
\* Location matcher (src/location/matching.py)
\* A configuration's "locations" mapping is a sequence of profiles in
\* declaration order (dict insertion order); a key that is absent from a
\* profile is modelled by the value .get() defaults to ("" or <<>>).
\* ---------------------------------------------------------------------------
RECURSIVE VpnScan(_, _)
VpnScan(locations, i) ==
    IF i > Len(locations) THEN NoneVal
    ELSE IF locations[i].name # "default" /\ Truthy(locations[i].proxy_url)
         THEN locations[i].name
         ELSE VpnScan(locations, i + 1)

\* Mutant: the proxy_url test is dropped from the scan.
RECURSIVE VpnScanNoProxyTest(_, _)
VpnScanNoProxyTest(locations, i) ==
    IF i > Len(locations) THEN NoneVal
    ELSE IF locations[i].name # "default" THEN locations[i].name
         ELSE VpnScanNoProxyTest(locations, i + 1)

Mut_find_vpn_location(locations) == VpnScanNoProxyTest(locations, 1)

_find_vpn_location(locations) == VpnScan(locations, 1)

RECURSIVE SsidScan(_, _, _)
SsidScan(locations, ssid, i) ==
    IF i > Len(locations) THEN NoneVal
    ELSE IF locations[i].name # "default" /\ ssid \in Range(locations[i].ssids)
         THEN locations[i].name
         ELSE SsidScan(locations, ssid, i + 1)

\* Mutant: the scan keeps going and returns the last profile listing the SSID.
RECURSIVE SsidScanLast(_, _, _)
SsidScanLast(locations, ssid, i) ==
    IF i < 1 THEN NoneVal
    ELSE IF locations[i].name # "default" /\ ssid \in Range(locations[i].ssids)
         THEN locations[i].name
         ELSE SsidScanLast(locations, ssid, i - 1)

Mut_find_ssid_location(locations, ssid) == SsidScanLast(locations, ssid, Len(locations))

_find_ssid_location(locations, ssid) == SsidScan(locations, ssid, 1)

RECURSIVE CorporateScan(_, _)
CorporateScan(locations, i) ==
    IF i > Len(locations) THEN NoneVal
    ELSE IF locations[i].name = "default" THEN CorporateScan(locations, i + 1)
    ELSE IF Truthy(locations[i].ntp_server) /\ locations[i].ntp_server # PublicNtp
         THEN locations[i].name
         ELSE CorporateScan(locations, i + 1)

\* Mutant: the comparison with the public time server is dropped.
RECURSIVE CorporateScanAnyNtp(_, _)
CorporateScanAnyNtp(locations, i) ==
    IF i > Len(locations) THEN NoneVal
    ELSE IF locations[i].name = "default" THEN CorporateScanAnyNtp(locations, i + 1)
    ELSE IF Truthy(locations[i].ntp_server) THEN locations[i].name
         ELSE CorporateScanAnyNtp(locations, i + 1)

Mut_find_corporate_location(locations) == CorporateScanAnyNtp(locations, 1)

_find_corporate_location(locations) == CorporateScan(locations, 1)

RECURSIVE DomainScan(_, _, _)
DomainScan(locations, current_domains, i) ==
    IF i > Len(locations) THEN NoneVal
    ELSE IF locations[i].name = "default"
         THEN DomainScan(locations, current_domains, i + 1)
    ELSE IF Range(locations[i].dns_search_domains) \cap Range(current_domains) # {}
         THEN locations[i].name
         ELSE DomainScan(locations, current_domains, i + 1)

\* Mutant: a profile matches only if all its domains are current ones.
RECURSIVE DomainScanSubset(_, _, _)
DomainScanSubset(locations, current_domains, i) ==
    IF i > Len(locations) THEN NoneVal
    ELSE IF locations[i].name = "default"
         THEN DomainScanSubset(locations, current_domains, i + 1)
    ELSE IF /\ locations[i].dns_search_domains # <<>>
            /\ Range(locations[i].dns_search_domains) \subseteq Range(current_domains)
         THEN locations[i].name
         ELSE DomainScanSubset(locations, current_domains, i + 1)

Mut_find_domain_location(locations, current_domains) ==
    DomainScanSubset(locations, current_domains, 1)

_find_domain_location(locations, current_domains) ==
    DomainScan(locations, current_domains, 1)

RECURSIVE HomeScan(_, _)
HomeScan(locations, i) ==
    IF i > Len(locations) THEN NoneVal
    ELSE IF locations[i].name = "default" THEN HomeScan(locations, i + 1)
    ELSE IF ~Truthy(locations[i].proxy_url)
            /\ Len(locations[i].dns_search_domains) <= 2
         THEN locations[i].name
         ELSE HomeScan(locations, i + 1)

\* Mutant: a profile with two search domains is not home-like.
RECURSIVE HomeScanStrict(_, _)
HomeScanStrict(locations, i) ==
    IF i > Len(locations) THEN NoneVal
    ELSE IF locations[i].name = "default" THEN HomeScanStrict(locations, i + 1)
    ELSE IF ~Truthy(locations[i].proxy_url)
            /\ Len(locations[i].dns_search_domains) < 2
         THEN locations[i].name
         ELSE HomeScanStrict(locations, i + 1)

Mut_find_home_location(locations) == HomeScanStrict(locations, 1)

_find_home_location(locations) == HomeScan(locations, 1)

\* Mutant: the final "return 'default'" is missing, the last helper's result
\* (possibly None) is returned as it is.
Mut_find_matching_location(config_data, current_ssid, current_search_domains, vpn_active) ==
    LET locations == config_data.locations
        m1 == IF vpn_active THEN _find_vpn_location(locations) ELSE NoneVal
        m2 == IF ~vpn_active /\ Truthy(current_ssid)
              THEN _find_ssid_location(locations, current_ssid) ELSE NoneVal
        m3 == IF ~vpn_active /\ current_search_domains # <<>>
              THEN _find_domain_location(locations, current_search_domains)
              ELSE NoneVal
        m4 == IF vpn_active THEN _find_corporate_location(locations)
              ELSE _find_home_location(locations)
    IN  IF Truthy(m1) THEN m1
        ELSE IF Truthy(m2) THEN m2
        ELSE IF Truthy(m3) THEN m3
        ELSE m4

\* Mutant: the SSID rule also runs while the VPN is active.
Mut_find_matching_location_ssid(config_data, current_ssid, current_search_domains, vpn_active) ==
    LET locations == config_data.locations
        m1 == IF Truthy(current_ssid)
              THEN _find_ssid_location(locations, current_ssid) ELSE NoneVal
        m2 == IF vpn_active THEN _find_vpn_location(locations) ELSE NoneVal
        m3 == IF ~vpn_active /\ current_search_domains # <<>>
              THEN _find_domain_location(locations, current_search_domains)
              ELSE NoneVal
        m4 == IF vpn_active THEN _find_corporate_location(locations)
              ELSE _find_home_location(locations)
    IN  IF Truthy(m1) THEN m1
        ELSE IF Truthy(m2) THEN m2
        ELSE IF Truthy(m3) THEN m3
        ELSE IF Truthy(m4) THEN m4
        ELSE "default"

\* The cascade of find_matching_location; a helper's None result or an empty
\* name ("if match:") falls through to the next rule.
find_matching_location(config_data, current_ssid, current_search_domains, vpn_active) ==
    LET locations == config_data.locations
        m1 == IF vpn_active THEN _find_vpn_location(locations) ELSE NoneVal
        m2 == IF ~vpn_active /\ Truthy(current_ssid)
              THEN _find_ssid_location(locations, current_ssid) ELSE NoneVal
        m3 == IF ~vpn_active /\ current_search_domains # <<>>
              THEN _find_domain_location(locations, current_search_domains)
              ELSE NoneVal
        m4 == IF vpn_active THEN _find_corporate_location(locations)
              ELSE _find_home_location(locations)
    IN  IF Truthy(m1) THEN m1
        ELSE IF Truthy(m2) THEN m2
        ELSE IF Truthy(m3) THEN m3
        ELSE IF Truthy(m4) THEN m4
        ELSE "default"

\* ---------------------------------------------------------------------------
\* Network state probes (src/network/detection.py, src/network/interfaces.py)
\* A network state net is what the operating system would report:
\*   ssid           CoreWLAN's current SSID or None
\*   default_iface  the default-route interface or None
\*   primary        the tuple get_primary_service_interface returns
\*   domains        interface -> search domains of its scoped resolver block
\*   services       get_all_active_services(): <<service, device>> pairs
\* ---------------------------------------------------------------------------
\* str.startswith(VPN_INTERFACE_PREFIX) over the interface names of the model.
IsTunnel(iface) == iface \in {"utun3"}

get_default_route_interface(net) == net.default_iface

get_current_ssid(net) == net.ssid

get_current_search_domains(net, interface_name) ==
    IF ~Truthy(interface_name) THEN <<>> ELSE net.domains[interface_name]

is_vpn_active(net) ==
    LET default_interface == get_default_route_interface(net)
    IN  IF ~Truthy(default_interface) THEN FALSE
        ELSE IsTunnel(default_interface)

get_primary_service_interface(net) == net.primary

get_all_active_services(net) == net.services

\* _get_current_network_info returns the probe's tuple; "not network_info"
\* is Python's truthiness of that tuple, false for any 3-tuple.
_get_current_network_info(net) == get_primary_service_interface(net)

TupleFalsy(t) == Len(t) = 0

\* ---------------------------------------------------------------------------
\* OS mutation commands (src/network/configuration.py)
\* Each setter is the sequence of commands it hands to run_command.
\* ---------------------------------------------------------------------------
Cmd(op, target, args) == [op |-> op, target |-> target, args |-> args]

set_dns_servers(service_name, dns_servers) ==
    IF dns_servers = <<>> THEN <<>>
    ELSE <<Cmd("-setdnsservers", service_name, dns_servers)>>

set_search_domains(service_name, domains) ==
    <<Cmd("-setsearchdomains", service_name,
          IF domains = <<>> THEN <<"Empty">> ELSE domains)>>

_disable_all_proxies(service_name) ==
    <<Cmd("-setautoproxystate", service_name, <<"off">>),
      Cmd("-setwebproxystate", service_name, <<"off">>),
      Cmd("-setsecurewebproxystate", service_name, <<"off">>),
      Cmd("-setsocksfirewallproxystate", service_name, <<"off">>)>>

\* urllib.parse.urlparse and the PAC test over the proxy URLs of the model.
IsPacUrl(url) == url \in {"http://proxy.company.com/proxy.pac"}

UrlParts(url) ==
    IF url = "http://proxy.co:8080"
    THEN [scheme |-> "http", hostname |-> "proxy.co", port |-> "8080"]
    ELSE [scheme |-> "", hostname |-> "", port |-> ""]

_build_proxy_command(service_name, url) ==
    IF IsPacUrl(url) THEN Cmd("-setautoproxyurl", service_name, <<url>>)
    ELSE LET parsed == UrlParts(url)
         IN  IF parsed.hostname = "" THEN Cmd("-setautoproxyurl", service_name, <<url>>)
             ELSE IF parsed.scheme = "http"
                  THEN Cmd("-setwebproxy", service_name, <<parsed.hostname, parsed.port>>)
             ELSE IF parsed.scheme = "https"
                  THEN Cmd("-setsecurewebproxy", service_name, <<parsed.hostname, parsed.port>>)
             ELSE IF parsed.scheme = "socks"
                  THEN Cmd("-setsocksfirewallproxy", service_name, <<parsed.hostname, parsed.port>>)
             ELSE Cmd("-setautoproxyurl", service_name, <<url>>)

set_proxy(service_name, url) ==
    IF ~Truthy(url)
    THEN _disable_all_proxies(service_name)
         \o <<Cmd("-setproxybypassdomains", service_name, <<"Empty">>)>>
    ELSE <<_build_proxy_command(service_name, url),
           Cmd("-setproxybypassdomains", service_name,
               <<"*.local", "169.254/16", "localhost", "127.0.0.1", "hostname">>)>>

set_default_printer(printer_name) == <<Cmd("lpadmin -d", printer_name, <<>>)>>

set_ntp_server(ntp_server) ==
    <<Cmd("-setusingnetworktime", "systemsetup", <<"off">>),
      Cmd("-setnetworktimeserver", "systemsetup", <<ntp_server>>),
      Cmd("-setusingnetworktime", "systemsetup", <<"on">>),
      Cmd("sntp -sS", "sntp", <<ntp_server>>)>>

\* The shell proxy files are rewritten from the proxy URL and bypass domains.
update_shell_proxy_configuration(proxy_url, dns_search_domains) ==
    <<Cmd("update_shell_proxy_configuration", proxy_url, dns_search_domains)>>

\* ---------------------------------------------------------------------------
\* Settings applier (src/location/settings.py)
\* ---------------------------------------------------------------------------
\* list(dict.fromkeys(s)): drop repeats, keeping first occurrences.
RECURSIVE Dedup(_)
Dedup(s) ==
    IF s = <<>> THEN <<>>
    ELSE LET r == Dedup(SubSeq(s, 1, Len(s) - 1))
         IN  IF s[Len(s)] \in Range(r) THEN r ELSE Append(r, s[Len(s)])

\* d.endswith((".local", ".arpa")) over the domain names of the model.
EndsWithLocalSuffix(d) == d \in {"home.arpa", "printer.local"}

\* Mutant: off VPN every live domain is merged, not only the local ones.
Mut_apply_location_settings(net, location_config, service_name, interface_name, vpn_active, skip_dns, proxy_result) ==
    LET current_domains == get_current_search_domains(net, interface_name)
        config_domains == location_config.dns_search_domains
        all_domains ==
            IF config_domains # <<>>
            THEN Dedup(config_domains \o current_domains)
            ELSE current_domains
        dns == IF skip_dns THEN <<>>
               ELSE set_search_domains(service_name, all_domains)
                    \o set_dns_servers(service_name, location_config.dns_servers)
    IN  dns \o (IF Truthy(proxy_result) THEN set_proxy(service_name, proxy_result)
                ELSE set_proxy(service_name, ""))

\* Mutant: the profile's domains are merged with the local live domains only,
\* on VPN as off VPN.
Mut_apply_location_settings_vpn(net, location_config, service_name, interface_name, vpn_active, skip_dns, proxy_result) ==
    LET current_domains == get_current_search_domains(net, interface_name)
        config_domains == location_config.dns_search_domains
        local_domains == SelectSeq(current_domains, EndsWithLocalSuffix)
        all_domains ==
            IF config_domains # <<>>
            THEN Dedup(config_domains \o local_domains)
            ELSE current_domains
        dns == IF skip_dns THEN <<>>
               ELSE set_search_domains(service_name, all_domains)
                    \o set_dns_servers(service_name, location_config.dns_servers)
    IN  dns \o (IF Truthy(proxy_result) THEN set_proxy(service_name, proxy_result)
                ELSE set_proxy(service_name, ""))

\* Mutant: skip_dns is ignored, the DNS steps always run.
Mut_apply_location_settings_dns(net, location_config, service_name, interface_name, vpn_active, skip_dns, proxy_result) ==
    LET current_domains == get_current_search_domains(net, interface_name)
        config_domains == location_config.dns_search_domains
        local_domains == SelectSeq(current_domains, EndsWithLocalSuffix)
        all_domains ==
            IF config_domains # <<>>
            THEN IF vpn_active \/ current_domains = <<>>
                 THEN Dedup(config_domains \o current_domains)
                 ELSE Dedup(config_domains \o local_domains)
            ELSE current_domains
    IN  set_search_domains(service_name, all_domains)
        \o set_dns_servers(service_name, location_config.dns_servers)
        \o (IF Truthy(proxy_result) THEN set_proxy(service_name, proxy_result)
            ELSE set_proxy(service_name, ""))

apply_location_settings(net, location_config, service_name, interface_name, vpn_active, skip_dns, proxy_result) ==
    LET current_domains == get_current_search_domains(net, interface_name)
        config_domains == location_config.dns_search_domains
        local_domains == SelectSeq(current_domains, EndsWithLocalSuffix)
        all_domains ==
            IF config_domains # <<>>
            THEN IF vpn_active \/ current_domains = <<>>
                 THEN Dedup(config_domains \o current_domains)
                 ELSE Dedup(config_domains \o local_domains)
            ELSE current_domains
        dns == IF skip_dns THEN <<>>
               ELSE set_search_domains(service_name, all_domains)
                    \o set_dns_servers(service_name, location_config.dns_servers)
    IN  dns \o (IF Truthy(proxy_result) THEN set_proxy(service_name, proxy_result)
                ELSE set_proxy(service_name, ""))

\* The index of the profile named name (cfg["locations"][name]).
LocationIndex(cfg, name) ==
    CHOOSE i \in 1..Len(cfg.locations) : cfg.locations[i].name = name

HasLocation(cfg, name) == \E i \in 1..Len(cfg.locations) : cfg.locations[i].name = name

\* The loop over get_all_active_services() of check_and_apply_location_settings.
RECURSIVE ApplyToServices(_, _, _, _, _)
ApplyToServices(net, location_config, active_services, vpn_active, i) ==
    IF i > Len(active_services) THEN <<>>
    ELSE apply_location_settings(net, location_config, active_services[i][1],
                                 active_services[i][2], vpn_active, vpn_active,
                                 location_config.proxy_url)
         \o ApplyToServices(net, location_config, active_services, vpn_active, i + 1)

\* The loop "for serv_name, iface in active_services: set_proxy(serv_name, None)".
RECURSIVE DisableProxies(_, _)
DisableProxies(active_services, i) ==
    IF i > Len(active_services) THEN <<>>
    ELSE set_proxy(active_services[i][1], "") \o DisableProxies(active_services, i + 1)

\* Mutant: a location that is not configured still has the proxies of the
\* active services reset before "Unknown" is returned.
Mut_check_and_apply_location_settings(cfg, apply, fetch_details, net) ==
    LET vpn_active == is_vpn_active(net)
        location_name ==
            find_matching_location(cfg, get_current_ssid(net),
                get_current_search_domains(net, _get_current_network_info(net)[2]),
                vpn_active)
    IN  IF HasLocation(cfg, location_name)
        THEN [location_name |-> location_name, vpn_active |-> vpn_active,
              vpn_details |-> NoneVal, cmds |-> <<>>]
        ELSE [location_name |-> "Unknown", vpn_active |-> vpn_active,
              vpn_details |-> NoneVal,
              cmds |-> IF apply THEN DisableProxies(get_all_active_services(net), 1)
                       ELSE <<>>]

\* check_and_apply_location_settings(cfg, apply, fetch_details): the returned
\* triple and, in cmds, the OS commands it issued.
check_and_apply_location_settings(cfg, apply, fetch_details, net) ==
    LET network_info == _get_current_network_info(net)
    IN  IF TupleFalsy(network_info)
        THEN [location_name |-> "Unknown", vpn_active |-> FALSE,
              vpn_details |-> NoneVal, cmds |-> <<>>]
        ELSE
        LET interface == network_info[2]
            current_ssid == get_current_ssid(net)
            current_search_domains == get_current_search_domains(net, interface)
            vpn_active == is_vpn_active(net)
            vpn_details == IF vpn_active /\ fetch_details THEN "VPN details" ELSE NoneVal
            location_name ==
                find_matching_location(cfg, current_ssid, current_search_domains, vpn_active)
        IN  IF HasLocation(cfg, location_name)
            THEN LET location_config == cfg.locations[LocationIndex(cfg, location_name)]
                     cmds ==
                        IF ~apply THEN <<>>
                        ELSE ApplyToServices(net, location_config,
                                             get_all_active_services(net), vpn_active, 1)
                             \o (IF Truthy(location_config.printer)
                                 THEN set_default_printer(location_config.printer)
                                 ELSE <<>>)
                             \o (IF Truthy(location_config.ntp_server)
                                 THEN set_ntp_server(location_config.ntp_server)
                                 ELSE <<>>)
                             \o update_shell_proxy_configuration(
                                    location_config.proxy_url,
                                    location_config.dns_search_domains)
                 IN  [location_name |-> location_name, vpn_active |-> vpn_active,
                      vpn_details |-> vpn_details, cmds |-> cmds]
            ELSE [location_name |-> "Unknown", vpn_active |-> vpn_active,
                  vpn_details |-> vpn_details, cmds |-> <<>>]

\* ---------------------------------------------------------------------------
\* State
\* ---------------------------------------------------------------------------
VARIABLES
    config,         \* the loaded configuration: [settings, locations]
    net,            \* the network state the operating system reports
    m_called,       \* the matcher has been called on m_in
    m_in,           \* arguments of the last find_matching_location call
    m_out,          \* its return value
    os_dns,         \* service -> manually configured DNS servers (<<>>: DHCP)
    a_called,       \* check_and_apply_location_settings has been called
    a_args,         \* [apply, fetch_details] of its last call
    a_net,          \* the network state during its last call
    a_out,          \* what the last call returned and issued
    dns_applied,    \* service -> dns_servers kind of the profile last applied
    current_location,        \* NetWatcherApp.current_location
    debounce_timer,          \* NetWatcherApp.debounce_timer: 0 (None) or a timer
    is_evaluating,           \* NetWatcherApp.is_evaluating
    prev_vpn_active,         \* NetWatcherApp.prev_vpn_active
    created_resolver_files,  \* NetWatcherApp.created_resolver_files
    timer,          \* timer id -> the Timer thread: position, locals, record
    cb_pc,          \* position of sc_callback on the run-loop thread
    _cache,         \* network/cache.py: keys held by the network-state cache
    n_notifs,       \* number of sc_callback invocations so far
    n_evals,        \* cycle bodies entered by the notifications' timers
    burst_ok,       \* each notification came before the previous one's timer fired
    s_called,       \* apply_location_settings has been called on s_in
    s_in,           \* arguments of that call and the network state it saw
    s_out,          \* the OS commands it issued
    c_called,       \* an applying cycle has run with command failures
    c_in,           \* its arguments, the network state it saw, the failure
    c_out,          \* the location it returned and its run_command calls
    c_repeat,       \* that cycle saw the profile and snapshot of the one before
    resolvers,      \* interfaces whose scutil --dns resolver block has a nameserver
    v_called,       \* the VPN detection has been called
    v_in,           \* the network state and resolvers it saw
    v_out,          \* what each VPN detection returned
    _cache_timestamp,  \* network/cache.py: <<>> (None) or <<time of the epoch's start>>
    now,            \* time.time(), in seconds
    k_log,          \* the set_cached calls since the last clear_cache
    k_out,          \* the last get_cached call and what it returned
    resolver_dir,   \* the files under /etc/resolver that the reactor wrote
    config_file,    \* what load_config would return for the file on disk
    l_file,         \* the TOML file at get_config_path(), as written
    l_called,       \* load_config has been called
    l_in,           \* the file it found
    l_out,          \* the configuration it returned
    l_prev,         \* the load_config call before that one
    p_files,        \* shell proxy file -> the proxy URL it exports, or None
    p_called,       \* update_shell_proxy_configuration has been called
    p_in            \* its argument, the PAC answer, the failing write, the files before

matchVars == <<m_called, m_in, m_out>>
applyVars == <<os_dns, a_called, a_args, a_net, a_out, dns_applied>>
appVars == <<current_location, debounce_timer, is_evaluating, prev_vpn_active,
             created_resolver_files>>
histVars == <<n_notifs, n_evals, burst_ok>>
reactorVars == <<appVars, timer, cb_pc, _cache, histVars>>
settingsVars == <<s_called, s_in, s_out, c_called, c_in, c_out, c_repeat>>
vpnVars == <<resolvers, v_called, v_in, v_out>>
cacheVars == <<_cache_timestamp, now, k_log, k_out>>
envVars == <<resolver_dir, config_file>>
loadVars == <<l_file, l_called, l_in, l_out, l_prev>>
shellVars == <<p_files, p_called, p_in>>
unitVars == <<settingsVars, vpnVars, cacheVars, envVars, loadVars, shellVars>>
vars == <<config, net, matchVars, applyVars, reactorVars, unitVars>>

\* ---------------------------------------------------------------------------
\* Inputs of the matcher
\* ---------------------------------------------------------------------------
LocationNames == {"default", "Office", "Home"}

\* config.DEFAULT_LOCATION_CONFIG
DEFAULT_LOCATION_CONFIG ==
    [name |-> "default", ssids |-> <<>>, dns_search_domains |-> <<>>,
     dns_servers |-> <<>>, proxy_url |-> "", printer |-> "",
     ntp_server |-> PublicNtp]

\* A "default" profile that every heuristic would pick if it were eligible.
CustomDefault ==
    [name |-> "default", ssids |-> <<"CorpWiFi">>,
     dns_search_domains |-> <<"corp.com">>, dns_servers |-> <<>>,
     proxy_url |-> "http://proxy.co:8080", printer |-> "",
     ntp_server |-> "time.co.com"]

MatchProfiles(n) ==
    IF n = "default" THEN {DEFAULT_LOCATION_CONFIG, CustomDefault}
    ELSE [name : {n},
          ssids : {<<>>, <<"CorpWiFi">>},
          dns_search_domains : {<<>>, <<"corp.com">>, <<"corp.com", "b.com", "c.com">>},
          dns_servers : {<<>>},
          proxy_url : {"", "http://proxy.co:8080"},
          printer : {""},
          ntp_server : {"", PublicNtp, "time.co.com"}]

\* Sequences of distinct names: the key orders of a locations mapping.
NameOrders ==
    UNION {{s \in [1..k -> LocationNames] :
              \A i, j \in 1..k : i # j => s[i] # s[j]} : k \in 0..MaxProfiles}

LocationsOf(order) ==
    {locs \in [1..Len(order) -> UNION {MatchProfiles(n) : n \in LocationNames}] :
        \A i \in 1..Len(order) : locs[i].name = order[i]}

DEFAULT_DEBOUNCE_SECONDS == 5

MatchConfigs ==
    {[settings |-> [debounce_seconds |-> DEFAULT_DEBOUNCE_SECONDS], locations |-> locs] :
        locs \in UNION {LocationsOf(o) : o \in NameOrders}}

Snapshots ==
    [ssid : {NoneVal, "", "CorpWiFi", "GuestWiFi"},
     search_domains : {<<>>, <<"corp.com">>, <<"x.com", "c.com">>},
     vpn_active : BOOLEAN]

NoSnapshot == [ssid |-> NoneVal, search_domains |-> <<>>, vpn_active |-> FALSE]

\* ---------------------------------------------------------------------------
\* Network states and configurations of the applier and the reactor
\* ---------------------------------------------------------------------------
Services == {"Wi-Fi", "Ethernet"}
Ifaces == {"en0", "en5", "utun3"}

NoDomains == [i \in Ifaces |-> <<>>]
NoPrimary == <<NoneVal, NoneVal, NoneVal>>

NetOffline ==
    [ssid |-> NoneVal, default_iface |-> NoneVal, primary |-> NoPrimary,
     domains |-> NoDomains, services |-> <<>>]

NetHomeWifi ==
    [ssid |-> "HomeWiFi", default_iface |-> "en0",
     primary |-> <<"Wi-Fi", "en0", "svc-wifi">>,
     domains |-> [NoDomains EXCEPT !["en0"] = <<"home.arpa">>],
     services |-> << <<"Wi-Fi", "en0">> >>]

NetCorpWifi ==
    [ssid |-> "CorpWiFi", default_iface |-> "en0",
     primary |-> <<"Wi-Fi", "en0", "svc-wifi">>,
     domains |-> [NoDomains EXCEPT !["en0"] = <<"corp.com", "home.arpa">>,
                                   !["en5"] = <<"corp.com">>],
     services |-> << <<"Wi-Fi", "en0">>, <<"Ethernet", "en5">> >>]

NetGuestWifi ==
    [ssid |-> "GuestWiFi", default_iface |-> "en0",
     primary |-> <<"Wi-Fi", "en0", "svc-wifi">>,
     domains |-> NoDomains,
     services |-> << <<"Wi-Fi", "en0">> >>]

NetVpn ==
    [ssid |-> "HomeWiFi", default_iface |-> "utun3",
     primary |-> <<"Wi-Fi", "utun3", "svc-vpn">>,
     domains |-> [NoDomains EXCEPT !["en0"] = <<"home.arpa">>,
                                   !["utun3"] = <<"corp.com", "vpn.corp.com">>],
     services |-> << <<"Wi-Fi", "en0">> >>]

\* A tunnel that is not a user VPN holds the default route: no DNS resolver
\* uses it (a private-relay-style service).
NetRelay ==
    [ssid |-> "HomeWiFi", default_iface |-> "utun3",
     primary |-> <<"Wi-Fi", "en0", "svc-wifi">>,
     domains |-> [NoDomains EXCEPT !["en0"] = <<"home.arpa">>],
     services |-> << <<"Wi-Fi", "en0">> >>]

NetStates == {NetOffline, NetHomeWifi, NetCorpWifi, NetGuestWifi, NetVpn}

OfficeProfile ==
    [name |-> "Office", ssids |-> <<"CorpWiFi">>,
     dns_search_domains |-> <<"corp.com">>, dns_servers |-> <<"10.1.1.10">>,
     proxy_url |-> "http://proxy.co:8080", printer |-> "Office_Printer",
     ntp_server |-> "time.co.com"]

HomeProfile ==
    [name |-> "Home", ssids |-> <<"HomeWiFi">>,
     dns_search_domains |-> <<>>, dns_servers |-> <<>>,
     proxy_url |-> "", printer |-> "Home_Printer",
     ntp_server |-> PublicNtp]

ApplyProfiles == {OfficeProfile, HomeProfile, DEFAULT_LOCATION_CONFIG}

ApplyConfigs ==
    {[settings |-> [debounce_seconds |-> DEFAULT_DEBOUNCE_SECONDS], locations |-> locs] :
        locs \in UNION {{l \in [1..Len(o) -> ApplyProfiles] :
                            \A i \in 1..Len(o) : l[i].name = o[i]} : o \in NameOrders}}

\* ---------------------------------------------------------------------------
\* The operating system's side of the commands: networksetup -setdnsservers
\* stores the given servers as the service's manual DNS configuration, and
\* the argument "Empty" removes it (DHCP-supplied servers are used again).
\* ---------------------------------------------------------------------------
RECURSIVE ExecDns(_, _, _)
ExecDns(dns, cmds, i) ==
    IF i > Len(cmds) THEN dns
    ELSE ExecDns(IF cmds[i].op = "-setdnsservers"
                 THEN [dns EXCEPT ![cmds[i].target] =
                          IF cmds[i].args = <<"Empty">> THEN <<>> ELSE cmds[i].args]
                 ELSE dns,
                 cmds, i + 1)

NoResult ==
    [location_name |-> NoneVal, vpn_active |-> FALSE, vpn_details |-> NoneVal,
     cmds |-> <<>>]

ApplyIdle ==
    /\ os_dns = [s \in Services |-> <<>>]
    /\ a_called = FALSE
    /\ a_args = [apply |-> FALSE, fetch_details |-> FALSE]
    /\ a_net = NetOffline
    /\ a_out = NoResult
    /\ dns_applied = [s \in Services |-> "never"]

\* ---------------------------------------------------------------------------
\* The reactor's state after NetWatcherApp.__init__ (src/watcher.py)
\* ---------------------------------------------------------------------------
\* Timer 1 is the startup timer of setup_watcher, the others are the debounce
\* timers of the notifications.
StartupTimer == 1
TimerIds == 1..(MaxNotifs + 1)
NotifTimers == TimerIds \ {StartupTimer}

\* A threading.Timer that has not been created yet.
NoTimer ==
    [pc |-> "unused", vpn_changed |-> FALSE,
     location_name |-> NoneVal, vpn_active |-> FALSE,
     outcome |-> "none", mutated |-> FALSE, menu |-> FALSE, wrote |-> FALSE,
     cleanup |-> FALSE, seen_vpn |-> FALSE, tracked_vpn |-> FALSE]

\* A timer whose thread has ended or that was cancelled before it fired.
DeadTimer == [NoTimer EXCEPT !.pc = "dead"]

ReactorIdle ==
    /\ current_location = NoneVal
    /\ debounce_timer = 0
    /\ is_evaluating = FALSE
    /\ prev_vpn_active = FALSE
    /\ created_resolver_files = <<>>
    /\ timer = [t \in TimerIds |-> NoTimer]
    /\ cb_pc = "no watcher"
    /\ _cache = {}
    /\ n_notifs = 0
    /\ n_evals = 0
    /\ burst_ok = TRUE

\* ---------------------------------------------------------------------------
\* No call of the applier's parts has been made yet
\* ---------------------------------------------------------------------------
NoSettingsCall ==
    [location_config |-> DEFAULT_LOCATION_CONFIG, service_name |-> NoneVal,
     interface_name |-> NoneVal, vpn_active |-> FALSE, skip_dns |-> FALSE,
     proxy_result |-> NoneVal, net |-> NetOffline]

NoCycleCall == [apply |-> FALSE, net |-> NetOffline, failing |-> 0, how |-> "ok"]

NoCycleResult == [location_name |-> NoneVal, vpn_active |-> FALSE, calls |-> <<>>]

SettingsIdle ==
    /\ s_called = FALSE
    /\ s_in = NoSettingsCall
    /\ s_out = <<>>
    /\ c_called = FALSE
    /\ c_in = NoCycleCall
    /\ c_out = NoCycleResult
    /\ c_repeat = FALSE

NoVpnResult == [detection |-> FALSE, cycle |-> FALSE, legacy |-> FALSE]

VpnIdle ==
    /\ resolvers = {}
    /\ v_called = FALSE
    /\ v_in = [net |-> NetOffline, resolvers |-> {}]
    /\ v_out = NoVpnResult

NoGet == [called |-> FALSE, key |-> NoneVal, value |-> NoneVal]

CacheIdle ==
    /\ _cache_timestamp = <<>>
    /\ now = 0
    /\ k_log = <<>>
    /\ k_out = NoGet

\* No resolver file has been written, the configuration file is as loaded.
EnvIdle ==
    /\ resolver_dir = {}
    /\ config_file = config

\* The [settings] table of DEFAULT_CONFIG.
DEFAULT_DEBUG == FALSE

DefaultSettings == [debug |-> DEFAULT_DEBUG, debounce_seconds |-> DEFAULT_DEBOUNCE_SECONDS]

\* A configuration file: it may be missing, may lack the [settings] or the
\* [locations] table, and holds its location tables in file order.
NoFile ==
    [exists |-> FALSE, has_settings |-> FALSE, settings |-> DefaultSettings,
     has_locations |-> FALSE, locations |-> <<>>]

NoLoad == [called |-> FALSE, in |-> NoFile, out |-> NoFile]

LoadIdle ==
    /\ l_file = NoFile
    /\ l_called = FALSE
    /\ l_in = NoFile
    /\ l_out = NoFile
    /\ l_prev = NoLoad

\* The files ~/.config/netwatcher/proxy.env.{sh,csh,fish}, in the order
\* write_all_shell_proxy_files writes them.
ShellFiles == <<"proxy.env.sh", "proxy.env.csh", "proxy.env.fish">>

NoShellFiles == [f \in Range(ShellFiles) |-> NoneVal]

NoShellCall == [proxy_url |-> "", pac |-> NoneVal, failing |-> 0, before |-> NoShellFiles]

ShellIdle ==
    /\ p_files = NoShellFiles
    /\ p_called = FALSE
    /\ p_in = NoShellCall

UnitIdle == SettingsIdle /\ VpnIdle /\ CacheIdle /\ EnvIdle /\ LoadIdle /\ ShellIdle

\* ---------------------------------------------------------------------------
\* Specification of the matcher: any configuration, any snapshot
\* ---------------------------------------------------------------------------
MatchIdle ==
    /\ m_called = FALSE
    /\ m_in = NoSnapshot
    /\ m_out = NoneVal

InitMatch ==
    /\ config \in MatchConfigs
    /\ net = NetOffline
    /\ ApplyIdle
    /\ ReactorIdle
    /\ MatchIdle
    /\ UnitIdle

\* One call find_matching_location(config, ssid, search_domains, vpn_active).
CallMatcher ==
    \E s \in Snapshots :
        /\ ~m_called
        /\ m_called' = TRUE
        /\ m_in' = s
        /\ m_out' = find_matching_location(config, s.ssid, s.search_domains, s.vpn_active)
        /\ UNCHANGED <<config, unitVars, net, applyVars, reactorVars>>

NextMatch == CallMatcher

SpecMatch == InitMatch /\ [][NextMatch]_vars

\* ---------------------------------------------------------------------------
\* Specification of the matcher's heuristics: profiles that differ in what
\* the SSID, search-domain and home-like rules read, with search-domain
\* lists of zero to three entries
\* ---------------------------------------------------------------------------
HeuristicProfiles(n) ==
    IF n = "default" THEN {DEFAULT_LOCATION_CONFIG, CustomDefault}
    ELSE [name : {n},
          ssids : {<<>>, <<"CorpWiFi">>},
          dns_search_domains :
              {<<>>, <<"corp.com">>, <<"a.com", "b.com">>, <<"a.com", "b.com", "c.com">>},
          dns_servers : {<<>>},
          proxy_url : {"", "http://proxy.co:8080"},
          printer : {""},
          ntp_server : {PublicNtp}]

HeuristicConfigs ==
    {[settings |-> [debounce_seconds |-> DEFAULT_DEBOUNCE_SECONDS], locations |-> locs] :
        locs \in UNION {{l \in [1..Len(o) -> UNION {HeuristicProfiles(n) : n \in LocationNames}] :
                            \A i \in 1..Len(o) : l[i].name = o[i]} : o \in NameOrders}}

InitHeuristic ==
    /\ config \in HeuristicConfigs
    /\ net = NetOffline
    /\ ApplyIdle
    /\ ReactorIdle
    /\ MatchIdle
    /\ UnitIdle

SpecHeuristic == InitHeuristic /\ [][NextMatch]_vars

\* ---------------------------------------------------------------------------
\* Specification of the applier: check_and_apply_location_settings is called
\* again and again while the network changes under it
\* ---------------------------------------------------------------------------
InitApply ==
    /\ config \in ApplyConfigs
    /\ net \in NetStates
    /\ MatchIdle
    /\ ApplyIdle
    /\ ReactorIdle
    /\ UnitIdle

\* The services the call ran the DNS steps on (apply, profile found, no VPN).
DnsTouched(r, args, n) ==
    IF args.apply /\ r.location_name # "Unknown" /\ ~r.vpn_active
    THEN {n.services[i][1] : i \in 1..Len(n.services)}
    ELSE {}

\* One call check_and_apply_location_settings(config, apply, fetch_details).
CallCheckAndApply ==
    \E apply \in BOOLEAN, fetch_details \in BOOLEAN :
        LET r == check_and_apply_location_settings(config, apply, fetch_details, net)
            args == [apply |-> apply, fetch_details |-> fetch_details]
            empty == config.locations[LocationIndex(config, r.location_name)].dns_servers = <<>>
        IN  /\ a_called' = TRUE
            /\ a_args' = args
            /\ a_net' = net
            /\ a_out' = r
            /\ os_dns' = ExecDns(os_dns, r.cmds, 1)
            /\ dns_applied' =
                   [s \in Services |->
                       IF s \in DnsTouched(r, args, net)
                       THEN IF empty THEN "empty" ELSE "servers"
                       ELSE dns_applied[s]]
            /\ UNCHANGED <<config, unitVars, net, matchVars, reactorVars>>

\* The network environment changes.
NetChange ==
    /\ net' \in NetStates \ {net}
    /\ UNCHANGED <<config, unitVars, matchVars, applyVars, reactorVars>>

NextApply == CallCheckAndApply \/ NetChange

SpecApply == InitApply /\ [][NextApply]_vars

\* ---------------------------------------------------------------------------
\* Specification of the applier's parts: apply_location_settings called on
\* its own, and applying cycles in which one command may fail and the search
\* domains a cycle sets are the ones the next cycle reads
\* ---------------------------------------------------------------------------
\* Profile variants: the search-domain lists a profile carries.
ProfileDomainLists ==
    {<<>>, <<"corp.com">>, <<"corp.com", "home.arpa">>, <<"corp.com", "corp.com">>}

SettingsProfiles ==
    {[OfficeProfile EXCEPT !.dns_search_domains = C] : C \in ProfileDomainLists}

SettingsConfigs ==
    {[settings |-> [debounce_seconds |-> DEFAULT_DEBOUNCE_SECONDS],
      locations |-> <<p, HomeProfile, DEFAULT_LOCATION_CONFIG>>] :
        p \in SettingsProfiles}
    \cup {[settings |-> [debounce_seconds |-> DEFAULT_DEBOUNCE_SECONDS],
           locations |-> <<DEFAULT_LOCATION_CONFIG>>]}

\* Live search-domain lists of the Wi-Fi interface.
LiveLists ==
    {<<>>, <<"home.arpa">>, <<"corp.com", "home.arpa">>,
     <<"old.corp.com", "printer.local", "corp.com">>}

SettingsNets ==
    {[NetHomeWifi EXCEPT !.domains["en0"] = L] : L \in LiveLists}
    \cup {NetCorpWifi, NetGuestWifi, NetVpn}

InitSettings ==
    /\ config \in SettingsConfigs
    /\ net \in SettingsNets
    /\ MatchIdle
    /\ ApplyIdle
    /\ ReactorIdle
    /\ UnitIdle

\* One call apply_location_settings(location_config, service_name,
\* interface_name, vpn_active, skip_dns, proxy_result).
CallApplyLocationSettings ==
    \E i \in 1..Len(config.locations), j \in 1..Len(net.services),
       vpn_active \in BOOLEAN, skip_dns \in BOOLEAN,
       proxy_result \in {NoneVal, "http://proxy.co:8080"} :
        /\ ~s_called
        /\ ~c_called
        /\ s_called' = TRUE
        /\ s_in' = [location_config |-> config.locations[i],
                    service_name |-> net.services[j][1],
                    interface_name |-> net.services[j][2],
                    vpn_active |-> vpn_active, skip_dns |-> skip_dns,
                    proxy_result |-> proxy_result, net |-> net]
        /\ s_out' = apply_location_settings(net, config.locations[i],
                        net.services[j][1], net.services[j][2],
                        vpn_active, skip_dns, proxy_result)
        /\ UNCHANGED <<config, net, matchVars, applyVars, reactorVars,
                       c_called, c_in, c_out, c_repeat, vpnVars, cacheVars, envVars, loadVars, shellVars>>

\* run_command: a non-zero exit status, a missing binary and any other
\* exception are caught and reported as False; nothing is raised.
run_command(cmd, how) == how = "ok"

\* Mutant: the commands after a failing one are not run (the failure raises).
MutRunAll(cmds, failing, how) ==
    [i \in 1..(IF failing \in 1..Len(cmds) THEN failing ELSE Len(cmds)) |->
        [cmd |-> cmds[i],
         ok |-> run_command(cmds[i], IF i = failing THEN how ELSE "ok")]]

\* The run_command calls of a cycle: the setters do not look at what
\* run_command returns, so every command is handed to it in turn.
RunAll(cmds, failing, how) ==
    [i \in 1..Len(cmds) |->
        [cmd |-> cmds[i],
         ok |-> run_command(cmds[i], IF i = failing THEN how ELSE "ok")]]

\* The device of a network service.
DeviceOf(n, service_name) ==
    LET j == CHOOSE j \in 1..Len(n.services) : n.services[j][1] = service_name
    IN  n.services[j][2]

\* The operating system's side of networksetup -setsearchdomains: the given
\* list becomes the search-domain list of the service's resolver.
RECURSIVE ExecSearch(_, _, _)
ExecSearch(n, calls, i) ==
    IF i > Len(calls) THEN n
    ELSE ExecSearch(IF calls[i].ok /\ calls[i].cmd.op = "-setsearchdomains"
                    THEN [n EXCEPT !.domains[DeviceOf(n, calls[i].cmd.target)] =
                             IF calls[i].cmd.args = <<"Empty">> THEN <<>>
                             ELSE calls[i].cmd.args]
                    ELSE n,
                    calls, i + 1)

\* What the applier works with besides the profile: the active services,
\* their live search domains and the VPN flag.
SnapshotOf(n) ==
    [services |-> n.services,
     domains |-> [j \in 1..Len(n.services) |-> n.domains[n.services[j][2]]],
     vpn_active |-> is_vpn_active(n)]

\* Mutant: a cycle that matches the location of the cycle before it takes the
\* settings as applied and issues nothing.
MutCallCycle ==
    \E apply \in BOOLEAN :
        LET r == check_and_apply_location_settings(config, apply, FALSE, net)
            cmds == IF c_called /\ c_in.apply /\ c_out.location_name = r.location_name
                    THEN <<>> ELSE r.cmds
        IN  \E failing \in 0..Len(cmds), how \in {"ok", "nonzero", "missing"} :
                LET calls == RunAll(cmds, failing, how)
                IN  /\ ~s_called
                    /\ (failing = 0) = (how = "ok")
                    /\ c_called' = TRUE
                    /\ c_in' = [apply |-> apply, net |-> net,
                                failing |-> failing, how |-> how]
                    /\ c_out' = [location_name |-> r.location_name,
                                 vpn_active |-> r.vpn_active, calls |-> calls]
                    /\ c_repeat' = /\ c_called /\ c_in.apply /\ apply
                                   /\ c_out.location_name = r.location_name
                                   /\ SnapshotOf(c_in.net) = SnapshotOf(net)
                    /\ net' = ExecSearch(net, calls, 1)
                    /\ UNCHANGED <<config, matchVars, applyVars, reactorVars,
                                   s_called, s_in, s_out, vpnVars, cacheVars, envVars, loadVars, shellVars>>

\* One cycle check_and_apply_location_settings(config, apply) in which the
\* command number failing, if there is one, fails in the way how.
CallCycle ==
    \E apply \in BOOLEAN :
        LET r == check_and_apply_location_settings(config, apply, FALSE, net)
        IN  \E failing \in 0..Len(r.cmds), how \in {"ok", "nonzero", "missing"} :
                LET calls == RunAll(r.cmds, failing, how)
                IN  /\ ~s_called
                    /\ (failing = 0) = (how = "ok")
                    /\ c_called' = TRUE
                    /\ c_in' = [apply |-> apply, net |-> net,
                                failing |-> failing, how |-> how]
                    /\ c_out' = [location_name |-> r.location_name,
                                 vpn_active |-> r.vpn_active, calls |-> calls]
                    /\ c_repeat' = /\ c_called /\ c_in.apply /\ apply
                                   /\ c_out.location_name = r.location_name
                                   /\ SnapshotOf(c_in.net) = SnapshotOf(net)
                    /\ net' = ExecSearch(net, calls, 1)
                    /\ UNCHANGED <<config, matchVars, applyVars, reactorVars,
                                   s_called, s_in, s_out, vpnVars, cacheVars, envVars, loadVars, shellVars>>

\* The network environment changes between calls.
NetChangeSettings ==
    /\ ~s_called
    /\ net' \in SettingsNets \ {net}
    /\ UNCHANGED <<config, unitVars, matchVars, applyVars, reactorVars>>

NextSettings == CallApplyLocationSettings \/ CallCycle \/ NetChangeSettings

SpecSettings == InitSettings /\ [][NextSettings]_vars

\* ---------------------------------------------------------------------------
\* Specification of the VPN detection: is_vpn_active of network/detection.py,
\* which the applier calls, and is_vpn_active of the legacy module actions.py
\* ---------------------------------------------------------------------------
\* actions.py's is_vpn_active: the default route is on a utun interface and
\* a resolver block of scutil --dns names that interface and has a nameserver.
actions_is_vpn_active(n, res) ==
    LET default_interface == n.default_iface
    IN  IF ~Truthy(default_interface) \/ ~IsTunnel(default_interface) THEN FALSE
        ELSE default_interface \in res

VpnNets == NetStates \cup {NetRelay}

\* An interface that has search domains has a resolver block.
ResolverSets(n) ==
    {r \in SUBSET Ifaces : \A i \in Ifaces : n.domains[i] # <<>> => i \in r}

InitVpn ==
    /\ config \in SettingsConfigs
    /\ net \in VpnNets
    /\ MatchIdle
    /\ ApplyIdle
    /\ ReactorIdle
    /\ SettingsIdle
    /\ CacheIdle
    /\ EnvIdle
    /\ LoadIdle
    /\ ShellIdle
    /\ resolvers \in ResolverSets(net)
    /\ v_called = FALSE
    /\ v_in = [net |-> NetOffline, resolvers |-> {}]
    /\ v_out = NoVpnResult

\* The VPN flag is probed: by is_vpn_active itself, by a cycle
\* check_and_apply_location_settings(config, apply=False), and by the legacy
\* function.
CallIsVpnActive ==
    /\ v_called' = TRUE
    /\ v_in' = [net |-> net, resolvers |-> resolvers]
    /\ v_out' = [detection |-> is_vpn_active(net),
                 cycle |-> check_and_apply_location_settings(config, FALSE, FALSE, net).vpn_active,
                 legacy |-> actions_is_vpn_active(net, resolvers)]
    /\ UNCHANGED <<config, net, resolvers, matchVars, applyVars, reactorVars,
                   settingsVars, cacheVars, envVars, loadVars, shellVars>>

\* The network environment changes.
NetChangeVpn ==
    /\ net' \in VpnNets \ {net}
    /\ resolvers' \in ResolverSets(net')
    /\ UNCHANGED <<config, v_called, v_in, v_out, matchVars, applyVars,
                   reactorVars, settingsVars, cacheVars, envVars, loadVars, shellVars>>

NextVpn == CallIsVpnActive \/ NetChangeVpn

SpecVpn == InitVpn /\ [][NextVpn]_vars

\* ---------------------------------------------------------------------------
\* The change reactor (src/watcher.py): the run-loop thread runs setup_watcher
\* and then sc_callback, one invocation at a time; every threading.Timer is a
\* thread of its own that runs evaluate_network_state when it fires. Each
\* access to state shared between threads is a step of its own.
\* ---------------------------------------------------------------------------
\* network/cache.py: clear_cache empties the cache.
clear_cache(c) == {}

ReactorConfigs ==
    {c \in ApplyConfigs :
        c.locations = <<HomeProfile, OfficeProfile, DEFAULT_LOCATION_CONFIG>>}

ReactorNets == {NetHomeWifi, NetVpn}

InitReactor ==
    /\ config \in ReactorConfigs
    /\ net \in ReactorNets
    /\ MatchIdle
    /\ ApplyIdle
    /\ ReactorIdle
    /\ UnitIdle

\* setup_watcher: the watcher is registered and the startup timer started,
\* or SCDynamicStoreCreate fails and nothing is scheduled.
SetupWatcher ==
    /\ cb_pc = "no watcher"
    /\ \/ /\ cb_pc' = "idle"
          /\ debounce_timer' = StartupTimer
          /\ timer' = [timer EXCEPT ![StartupTimer].pc = "waiting"]
       \/ /\ cb_pc' = "no store"
          /\ UNCHANGED <<debounce_timer, timer>>
    /\ UNCHANGED <<config, unitVars, net, matchVars, applyVars, current_location,
                   is_evaluating, prev_vpn_active, created_resolver_files,
                   _cache, histVars>>

\* The notification arrives while the timer that the previous notification
\* started, if it started one, has not fired.
InBurst ==
    debounce_timer \in NotifTimers => timer[debounce_timer].pc = "waiting"

\* Mutant: the re-entrancy guard of sc_callback is missing.
MutScCallbackEnter ==
    /\ cb_pc = "idle"
    /\ n_notifs < MaxNotifs
    /\ n_notifs' = n_notifs + 1
    /\ burst_ok' = (burst_ok /\ InBurst)
    /\ cb_pc' = "cancel"
    /\ UNCHANGED <<config, unitVars, net, matchVars, applyVars, appVars, timer, _cache,
                   n_evals>>

\* sc_callback, lines 262-267: a notification arrives; it returns at once
\* when an evaluation is in progress.
ScCallbackEnter ==
    /\ cb_pc = "idle"
    /\ n_notifs < MaxNotifs
    /\ n_notifs' = n_notifs + 1
    /\ burst_ok' = (burst_ok /\ InBurst)
    /\ cb_pc' = IF is_evaluating THEN "idle" ELSE "cancel"
    /\ UNCHANGED <<config, unitVars, net, matchVars, applyVars, appVars, timer, _cache,
                   n_evals>>

\* sc_callback, lines 269-272: Timer.cancel() stops a timer that has not
\* fired and has no effect on one that has.
ScCallbackCancel ==
    /\ cb_pc = "cancel"
    /\ timer' = IF debounce_timer # 0 /\ timer[debounce_timer].pc = "waiting"
                THEN [timer EXCEPT ![debounce_timer] = DeadTimer]
                ELSE timer
    /\ cb_pc' = "start"
    /\ UNCHANGED <<config, unitVars, net, matchVars, applyVars, appVars, _cache, histVars>>

\* sc_callback, lines 279-281: a new timer is created and started.
ScCallbackStart ==
    /\ cb_pc = "start"
    /\ debounce_timer' = n_notifs + 1
    /\ timer' = [timer EXCEPT ![n_notifs + 1].pc = "waiting"]
    /\ cb_pc' = "idle"
    /\ UNCHANGED <<config, unitVars, net, matchVars, applyVars, current_location,
                   is_evaluating, prev_vpn_active, created_resolver_files,
                   _cache, histVars>>

\* threading.Timer.run: the interval has passed without cancel(); the thread
\* calls evaluate_network_state.
TimerFire(t) ==
    /\ timer[t].pc = "waiting"
    /\ timer' = [timer EXCEPT ![t].pc = "check"]
    /\ UNCHANGED <<config, unitVars, net, matchVars, applyVars, appVars, cb_pc, _cache,
                   histVars>>

\* evaluate_network_state, lines 286-288.
EvalCheck(t) ==
    /\ timer[t].pc = "check"
    /\ timer' = IF is_evaluating
                THEN [timer EXCEPT ![t] = DeadTimer]
                ELSE [timer EXCEPT ![t].pc = "set"]
    /\ UNCHANGED <<config, unitVars, net, matchVars, applyVars, appVars, cb_pc, _cache,
                   histVars>>

\* Mutant: the comparison is ignored and the settings are applied every time.
MutEvalProbe(t) ==
    /\ timer[t].pc = "set"
    /\ is_evaluating' = TRUE
    /\ n_evals' = IF t \in NotifTimers THEN n_evals + 1 ELSE n_evals
    /\ LET r == check_and_apply_location_settings(config, FALSE, FALSE, net)
           location_changed == r.location_name # current_location
           vpn_changed == r.vpn_active # prev_vpn_active
       IN  timer' = [timer EXCEPT
                        ![t].pc = "apply",
                        ![t].vpn_changed = vpn_changed,
                        ![t].mutated = (r.cmds # <<>>),
                        ![t].outcome = IF location_changed \/ vpn_changed
                                       THEN "none" ELSE "nochange"]
    /\ _cache' = clear_cache(_cache)
    /\ UNCHANGED <<config, unitVars, net, matchVars, applyVars, current_location,
                   debounce_timer, prev_vpn_active, created_resolver_files,
                   cb_pc, n_notifs, burst_ok>>

\* evaluate_network_state, lines 290-312 and 351-352: the flag is set and the
\* cycle body entered; the cache is cleared, the first, match-only call of
\* check_and_apply_location_settings is made and its result compared with
\* current_location and prev_vpn_active.
EvalProbe(t) ==
    /\ timer[t].pc = "set"
    /\ is_evaluating' = TRUE
    /\ n_evals' = IF t \in NotifTimers THEN n_evals + 1 ELSE n_evals
    /\ LET r == check_and_apply_location_settings(config, FALSE, FALSE, net)
           location_changed == r.location_name # current_location
           vpn_changed == r.vpn_active # prev_vpn_active
       IN  timer' = IF location_changed \/ vpn_changed
                    THEN [timer EXCEPT ![t].pc = "apply",
                                       ![t].vpn_changed = vpn_changed,
                                       ![t].mutated = (r.cmds # <<>>)]
                    ELSE [timer EXCEPT ![t].pc = "finally",
                                       ![t].mutated = (r.cmds # <<>>),
                                       ![t].outcome = "nochange"]
    /\ _cache' = clear_cache(_cache)
    /\ UNCHANGED <<config, unitVars, net, matchVars, applyVars, current_location,
                   debounce_timer, prev_vpn_active, created_resolver_files,
                   cb_pc, n_notifs, burst_ok>>

\* evaluate_network_state, lines 314-317, and 344-350 when the VPN state is
\* the same: the second, applying call; then the menu is rebuilt.
EvalApply(t) ==
    /\ timer[t].pc = "apply"
    /\ LET r == check_and_apply_location_settings(config, TRUE, TRUE, net)
       IN  /\ timer' = IF timer[t].vpn_changed
                       THEN [timer EXCEPT
                                ![t].pc = "resolver",
                                ![t].location_name = r.location_name,
                                ![t].vpn_active = r.vpn_active,
                                ![t].mutated = (timer[t].mutated \/ r.cmds # <<>>),
                                ![t].wrote = TRUE]
                       ELSE [timer EXCEPT
                                ![t].pc = "finally",
                                ![t].mutated = (timer[t].mutated \/ r.cmds # <<>>),
                                ![t].wrote = TRUE,
                                ![t].menu = TRUE,
                                ![t].outcome = "applied"]
           /\ current_location' = r.location_name
    /\ UNCHANGED <<config, unitVars, net, matchVars, applyVars, debounce_timer,
                   is_evaluating, prev_vpn_active, created_resolver_files,
                   cb_pc, _cache, histVars>>

\* create_vpn_resolver_files: one file per search domain that the default
\* route's resolver does not already list; the list of created files.
create_vpn_resolver_files(n, search_domains) ==
    LET primary_interface == get_default_route_interface(n)
        current_domains == IF Truthy(primary_interface)
                           THEN get_current_search_domains(n, primary_interface)
                           ELSE <<>>
        NotCurrent(d) == d \notin Range(current_domains)
    IN  SelectSeq(search_domains, NotCurrent)

\* remove_vpn_resolver_files: rm -f of every file of the list.
remove_vpn_resolver_files(dir, created_files) == dir \ Range(created_files)

\* evaluate_network_state, lines 319-350: on a VPN change the resolver files
\* are created, or removed together with a cache flush and a proxy reset on
\* every active service; then the menu is rebuilt.  The record keeps whether
\* the removal branch ran (cleanup), the vpn_active it tested (seen_vpn) and
\* prev_vpn_active as it was before line 342 (tracked_vpn).
EvalResolver(t) ==
    /\ timer[t].pc = "resolver"
    /\ LET up == timer[t].vpn_active /\ HasLocation(config, timer[t].location_name)
           search_domains ==
               IF up
               THEN config.locations[LocationIndex(config, timer[t].location_name)]
                        .dns_search_domains
               ELSE <<>>
           created == create_vpn_resolver_files(net, search_domains)
       IN  /\ created_resolver_files' =
                  IF ~up THEN <<>>
                  ELSE IF search_domains # <<>> THEN created
                       ELSE created_resolver_files
           /\ resolver_dir' =
                  IF ~up THEN remove_vpn_resolver_files(resolver_dir, created_resolver_files)
                  ELSE IF search_domains # <<>> THEN resolver_dir \cup Range(created)
                       ELSE resolver_dir
           /\ timer' = [timer EXCEPT
                           ![t].pc = "finally",
                           ![t].vpn_changed = FALSE,
                           ![t].location_name = NoneVal,
                           ![t].vpn_active = FALSE,
                           ![t].mutated = (timer[t].mutated \/ ~up
                                           \/ search_domains # <<>>),
                           ![t].menu = TRUE,
                           ![t].outcome = "applied",
                           ![t].cleanup = ~up,
                           ![t].seen_vpn = timer[t].vpn_active,
                           ![t].tracked_vpn = prev_vpn_active]
    /\ prev_vpn_active' = timer[t].vpn_active
    /\ UNCHANGED <<config, settingsVars, vpnVars, cacheVars, loadVars, shellVars, config_file, net,
                   matchVars, applyVars, current_location, debounce_timer,
                   is_evaluating, cb_pc, _cache, histVars>>

\* Mutant: an exception leaves evaluate_network_state without the cleanup.
MutEvalRaise(t) ==
    /\ timer[t].pc \in {"set", "apply", "resolver"}
    /\ is_evaluating' = (is_evaluating \/ timer[t].pc = "set")
    /\ n_evals' = IF t \in NotifTimers /\ timer[t].pc = "set"
                  THEN n_evals + 1 ELSE n_evals
    /\ timer' = [timer EXCEPT ![t] = DeadTimer]
    /\ UNCHANGED <<config, unitVars, net, matchVars, applyVars, current_location,
                   debounce_timer, prev_vpn_active, created_resolver_files,
                   cb_pc, _cache, n_notifs, burst_ok>>

\* A call made by the cycle body raises (in the first call, which follows
\* line 290, in the second call or in the resolver update); control passes
\* to the finally block.
EvalRaise(t) ==
    /\ timer[t].pc \in {"set", "apply", "resolver"}
    /\ is_evaluating' = (is_evaluating \/ timer[t].pc = "set")
    /\ n_evals' = IF t \in NotifTimers /\ timer[t].pc = "set"
                  THEN n_evals + 1 ELSE n_evals
    /\ timer' = [timer EXCEPT ![t].pc = "finally",
                              ![t].vpn_changed = FALSE,
                              ![t].location_name = NoneVal,
                              ![t].vpn_active = FALSE,
                              ![t].outcome = "raised"]
    /\ UNCHANGED <<config, unitVars, net, matchVars, applyVars, current_location,
                   debounce_timer, prev_vpn_active, created_resolver_files,
                   cb_pc, _cache, n_notifs, burst_ok>>

\* evaluate_network_state, lines 354-357: the finally block; the thread ends.
EvalFinally(t) ==
    /\ timer[t].pc = "finally"
    /\ is_evaluating' = FALSE
    /\ _cache' = clear_cache(_cache)
    /\ timer' = [timer EXCEPT ![t] = DeadTimer]
    /\ UNCHANGED <<config, unitVars, net, matchVars, applyVars, current_location,
                   debounce_timer, prev_vpn_active, created_resolver_files,
                   cb_pc, histVars>>

\* The network changes under the reactor.
NetChangeReactor ==
    /\ net' \in ReactorNets \ {net}
    /\ UNCHANGED <<config, unitVars, matchVars, applyVars, reactorVars>>

\* One step of the thread of timer t.
TimerThread(t) ==
    \/ TimerFire(t)
    \/ EvalCheck(t)
    \/ EvalProbe(t)
    \/ EvalApply(t)
    \/ EvalResolver(t)
    \/ EvalRaise(t)
    \/ EvalFinally(t)

Next ==
    \/ SetupWatcher
    \/ ScCallbackEnter
    \/ ScCallbackCancel
    \/ ScCallbackStart
    \/ \E t \in TimerIds : TimerThread(t)
    \/ NetChangeReactor

Spec == InitReactor /\ [][Next]_vars

\* ---------------------------------------------------------------------------
\* Specification of the reactor on a configuration without a "default"
\* location, whose only profile no VPN rule selects
\* ---------------------------------------------------------------------------
NoDefaultConfig ==
    [settings |-> [debounce_seconds |-> DEFAULT_DEBOUNCE_SECONDS],
     locations |-> <<HomeProfile>>]

InitNoDefault ==
    /\ config = NoDefaultConfig
    /\ net \in ReactorNets
    /\ MatchIdle
    /\ ApplyIdle
    /\ ReactorIdle
    /\ UnitIdle

SpecNoDefault == InitNoDefault /\ [][Next]_vars

\* ---------------------------------------------------------------------------
\* Specification of the reactor when every network change is delivered as a
\* notification and no call of the cycle body raises
\* ---------------------------------------------------------------------------
\* The network changes and the run loop, which is free, calls sc_callback
\* (lines 262-267) for the change.
NetChangeNotify ==
    /\ cb_pc = "idle"
    /\ n_notifs < MaxNotifs
    /\ net' \in ReactorNets \ {net}
    /\ n_notifs' = n_notifs + 1
    /\ burst_ok' = (burst_ok /\ InBurst)
    /\ cb_pc' = IF is_evaluating THEN "idle" ELSE "cancel"
    /\ UNCHANGED <<config, unitVars, matchVars, applyVars, appVars, timer, _cache, n_evals>>

\* One step of the thread of timer t, none of whose calls raises.
TimerThreadNotify(t) ==
    \/ TimerFire(t)
    \/ EvalCheck(t)
    \/ EvalProbe(t)
    \/ EvalApply(t)
    \/ EvalResolver(t)
    \/ EvalFinally(t)

NextNotify ==
    \/ SetupWatcher
    \/ NetChangeNotify
    \/ ScCallbackCancel
    \/ ScCallbackStart
    \/ \E t \in TimerIds : TimerThreadNotify(t)

SpecNotify == InitReactor /\ [][NextNotify]_vars

\* ---------------------------------------------------------------------------
\* Specification of the reactor with a user who edits the configuration file
\* and triggers the manual test from the menu
\* ---------------------------------------------------------------------------
\* The configuration file after the user has removed the Office profile.
EditedConfig(c) == [c EXCEPT !.locations = <<HomeProfile, DEFAULT_LOCATION_CONFIG>>]

ConfigFiles == ReactorConfigs \cup {EditedConfig(c) : c \in ReactorConfigs}

\* The user saves another configuration file.
EditConfig ==
    /\ config_file' \in ConfigFiles \ {config_file}
    /\ UNCHANGED <<config, net, matchVars, applyVars, reactorVars, settingsVars,
                   vpnVars, cacheVars, loadVars, shellVars, resolver_dir>>

\* run_test: the menu callback, on the run-loop thread, clears the cache,
\* reloads the configuration and applies the location it matches.
RunTest ==
    /\ cb_pc = "idle"
    /\ _cache' = clear_cache(_cache)
    /\ config' = config_file
    /\ current_location' =
           check_and_apply_location_settings(config_file, TRUE, TRUE, net).location_name
    /\ UNCHANGED <<net, matchVars, applyVars, debounce_timer, is_evaluating,
                   prev_vpn_active, created_resolver_files, timer, cb_pc,
                   histVars, unitVars>>

NextEdit ==
    \/ SetupWatcher
    \/ ScCallbackEnter
    \/ ScCallbackCancel
    \/ ScCallbackStart
    \/ \E t \in TimerIds : TimerThread(t)
    \/ EditConfig
    \/ RunTest

\* The app starts with the VPN up; the network does not change afterwards.
InitEdit == InitReactor /\ net = NetVpn

SpecEdit == InitEdit /\ [][NextEdit]_vars

\* ---------------------------------------------------------------------------
\* Specification of the network-state cache (src/network/cache.py): the
\* cache is a set of <<key, value>> pairs, one per key; every function holds
\* _cache_lock for its whole body
\* ---------------------------------------------------------------------------
CACHE_TIMEOUT == 30

CacheKeys == {"ssid", "dns"}
CacheValues == {"v1", "v2"}

\* The instants at which the cache is used.
Times == {0, 15, 29, 30, 45, 60}

\* The most set_cached calls between two clear_cache calls.
MaxSets == 3

_is_cache_valid(timestamp, t) ==
    IF timestamp = <<>> THEN FALSE
    ELSE t - timestamp[1] < CACHE_TIMEOUT

\* get_cached(key, default) at time t.
get_cached(c, timestamp, t, key, default) ==
    IF ~_is_cache_valid(timestamp, t) THEN default
    ELSE IF \E p \in c : p[1] = key
         THEN (CHOOSE p \in c : p[1] = key)[2]
         ELSE default

\* Mutant: a stale cache gets a new timestamp but keeps its entries.
Mut_set_cached(c, timestamp, t, key, value) ==
    [cache |-> {p \in c : p[1] # key} \cup {<<key, value>>},
     timestamp |-> IF _is_cache_valid(timestamp, t) THEN timestamp ELSE <<t>>]

\* set_cached(key, value) at time t: the cache and timestamp it leaves.
set_cached(c, timestamp, t, key, value) ==
    LET stale == ~_is_cache_valid(timestamp, t)
        c1 == IF stale THEN {} ELSE c
    IN  [cache |-> {p \in c1 : p[1] # key} \cup {<<key, value>>},
         timestamp |-> IF stale THEN <<t>> ELSE timestamp]

InitCache ==
    /\ config \in ReactorConfigs
    /\ net = NetOffline
    /\ MatchIdle
    /\ ApplyIdle
    /\ ReactorIdle
    /\ UnitIdle

GetCached ==
    \E key \in CacheKeys :
        /\ k_out' = [called |-> TRUE, key |-> key,
                     value |-> get_cached(_cache, _cache_timestamp, now, key, NoneVal)]
        /\ UNCHANGED <<config, net, matchVars, applyVars, appVars, timer, cb_pc,
                       histVars, settingsVars, vpnVars, envVars, loadVars, shellVars, _cache, _cache_timestamp,
                       now, k_log>>

SetCached ==
    \E key \in CacheKeys, value \in CacheValues :
        LET r == set_cached(_cache, _cache_timestamp, now, key, value)
        IN  /\ Len(k_log) < MaxSets
            /\ _cache' = r.cache
            /\ _cache_timestamp' = r.timestamp
            /\ k_log' = Append(k_log, [key |-> key, value |-> value, time |-> now])
            /\ k_out' = NoGet
            /\ UNCHANGED <<config, net, matchVars, applyVars, appVars, timer,
                           cb_pc, histVars, settingsVars, vpnVars, envVars, loadVars, shellVars, now>>

ClearCache ==
    /\ _cache' = clear_cache(_cache)
    /\ _cache_timestamp' = <<>>
    /\ k_log' = <<>>
    /\ k_out' = NoGet
    /\ UNCHANGED <<config, net, matchVars, applyVars, appVars, timer, cb_pc,
                   histVars, settingsVars, vpnVars, envVars, loadVars, shellVars, now>>

\* Time passes.
Tick ==
    /\ now' \in {t \in Times : t > now}
    /\ k_out' = NoGet
    /\ UNCHANGED <<config, net, matchVars, applyVars, appVars, timer, cb_pc,
                   histVars, settingsVars, vpnVars, envVars, loadVars, shellVars, _cache, _cache_timestamp, k_log>>

NextCache == GetCached \/ SetCached \/ ClearCache \/ Tick

SpecCache == InitCache /\ [][NextCache]_vars

\* ---------------------------------------------------------------------------
\* Specification of load_config (src/config.py): a location table is a
\* mapping from the keys it has to their values, each a list of strings
\* ---------------------------------------------------------------------------
\* The SSID entries of the model: strings, character lists (written here
\* with their characters spelled out) and a number.
IsStr(x) == x \in {"Home", "Hi"}
IsCharList(x) == x \in {"[H,o,m,e]", "[H,i]"}

\* "".join(ssid) over the character lists of the model.
Join(x) == IF x = "[H,o,m,e]" THEN "Home" ELSE "Hi"

RawSsids == {<<>>, <<"Home">>, <<"[H,o,m,e]">>, <<"Home", "[H,i]", "5">>}

\* The table with the keys K, and the key name that stands for its name.
RawTable(name, K, ssids, domains, dns_search_domains) ==
    [k \in K \cup {"name"} |->
        IF k = "name" THEN <<name>>
        ELSE IF k = "ssids" THEN ssids
        ELSE IF k = "domains" THEN domains
        ELSE dns_search_domains]

RawTables(name) ==
    {RawTable(name, K, s, d, c) :
        K \in SUBSET {"ssids", "domains", "dns_search_domains"},
        s \in RawSsids, d \in {<<>>, <<"old.com">>}, c \in {<<>>, <<"corp.com">>}}

RawNames == <<"Home", "Office">>

\* The [settings] table of a file: absent, or with values of its own.
RawSettings ==
    {[has |-> FALSE, settings |-> DefaultSettings],
     [has |-> TRUE, settings |-> [debug |-> TRUE, debounce_seconds |-> 0]]}

RawFile(s, has_locations, l) ==
    [exists |-> TRUE, has_settings |-> s.has, settings |-> s.settings,
     has_locations |-> has_locations, locations |-> l]

RawFiles ==
    {NoFile}
    \cup {RawFile(s, FALSE, <<>>) : s \in RawSettings}
    \cup {RawFile(s, TRUE, l) : s \in RawSettings,
            l \in UNION {{l \in [1..n -> UNION {RawTables(RawNames[i]) : i \in 1..n}] :
                             \A i \in 1..n : l[i]["name"] = <<RawNames[i]>>} :
                         n \in 0..Len(RawNames)}}

\* DEFAULT_LOCATION_CONFIG as a table of the file: every value a list of
\* strings, the strings being lists of one element.
DefaultTable ==
    [k \in {"name", "ssids", "dns_search_domains", "dns_servers", "proxy_url",
            "printer", "ntp_server"} |->
        IF k = "name" THEN <<"default">>
        ELSE IF k \in {"proxy_url", "printer"} THEN <<"">>
        ELSE IF k = "ntp_server" THEN <<"time.apple.com">>
        ELSE <<>>]

\* DEFAULT_CONFIG, which load_config writes and returns when there is no
\* file.
DEFAULT_CONFIG ==
    [exists |-> TRUE, has_settings |-> TRUE, settings |-> DefaultSettings,
     has_locations |-> TRUE, locations |-> <<DefaultTable>>]

\* The text of a TOML file is the sequence of its tables, each a header path
\* and the key = value lines under it.
Header(path, body) == [path |-> path, body |-> body]

\* The keys of a location table, without the name that its header carries.
BodyOf(t) == [k \in DOMAIN t \ {"name"} |-> t[k]]

\* Mutant: the dump leaves out the [settings] table.
Mut_toml_dump(cfg) ==
    IF ~cfg.has_locations THEN <<>>
    ELSE IF cfg.locations = <<>> THEN <<Header(<<"locations">>, <<>>)>>
    ELSE [i \in 1..Len(cfg.locations) |->
             Header(<<"locations", cfg.locations[i]["name"][1]>>, BodyOf(cfg.locations[i]))]

\* toml.dump: [settings] with its values, then one [locations.<name>] table
\* for each location, or a bare [locations] header when there is none.
toml_dump(cfg) ==
    (IF cfg.has_settings THEN <<Header(<<"settings">>, cfg.settings)>> ELSE <<>>)
    \o (IF ~cfg.has_locations THEN <<>>
        ELSE IF cfg.locations = <<>> THEN <<Header(<<"locations">>, <<>>)>>
        ELSE [i \in 1..Len(cfg.locations) |->
                 Header(<<"locations", cfg.locations[i]["name"][1]>>, BodyOf(cfg.locations[i]))])

\* toml.load: the nested tables that the headers of the text spell out.
toml_load(text) ==
    LET IsSettings(h) == h.path[1] = "settings"
        IsLocations(h) == h.path[1] = "locations"
        IsLocation(h) == IsLocations(h) /\ Len(h.path) = 2
        settings == SelectSeq(text, IsSettings)
        tables == SelectSeq(text, IsLocation)
    IN  [exists |-> TRUE,
         has_settings |-> settings # <<>>,
         settings |-> IF settings # <<>> THEN settings[1].body ELSE DefaultSettings,
         has_locations |-> SelectSeq(text, IsLocations) # <<>>,
         locations |->
             [i \in 1..Len(tables) |->
                 [k \in DOMAIN tables[i].body \cup {"name"} |->
                     IF k = "name" THEN <<tables[i].path[2]>> ELSE tables[i].body[k]]]]

\* The SSID repair: if some entry is a list of characters, the lists are
\* joined, the strings kept and entries of any other type dropped.
RepairSsids(t) ==
    IF "ssids" \notin DOMAIN t THEN t
    ELSE LET needs_repair == \E i \in 1..Len(t["ssids"]) : IsCharList(t["ssids"][i])
             kept == SelectSeq(t["ssids"], LAMBDA x : IsCharList(x) \/ IsStr(x))
             repaired_ssids ==
                 [i \in 1..Len(kept) |->
                     IF IsCharList(kept[i]) THEN Join(kept[i]) ELSE kept[i]]
         IN  IF needs_repair THEN [t EXCEPT !["ssids"] = repaired_ssids] ELSE t

\* Mutant: the legacy value always replaces dns_search_domains.
MutMigrateDomains(t) ==
    IF "domains" \notin DOMAIN t THEN t
    ELSE [k \in (DOMAIN t \cup {"dns_search_domains"}) \ {"domains"} |->
             IF k = "dns_search_domains" THEN t["domains"] ELSE t[k]]

\* The migration of the legacy key "domains".
MigrateDomains(t) ==
    IF "domains" \notin DOMAIN t THEN t
    ELSE [k \in (DOMAIN t \cup {"dns_search_domains"}) \ {"domains"} |->
             IF k = "dns_search_domains" /\ "dns_search_domains" \notin DOMAIN t
             THEN t["domains"]
             ELSE t[k]]

load_config(file) ==
    IF ~file.exists THEN DEFAULT_CONFIG
    ELSE IF ~file.has_locations THEN file
    ELSE [file EXCEPT !.locations =
             [i \in 1..Len(file.locations) |->
                 MigrateDomains(RepairSsids(file.locations[i]))]]

InitLoad ==
    /\ config \in ReactorConfigs
    /\ net = NetOffline
    /\ MatchIdle
    /\ ApplyIdle
    /\ ReactorIdle
    /\ SettingsIdle /\ VpnIdle /\ CacheIdle /\ EnvIdle /\ ShellIdle
    /\ l_file \in RawFiles
    /\ l_called = FALSE
    /\ l_in = NoFile
    /\ l_out = NoFile
    /\ l_prev = NoLoad

\* One call load_config(); a missing file is created with the dump of
\* DEFAULT_CONFIG, and l_file is what toml.load reads from the file.
LoadConfig ==
    /\ l_called' = TRUE
    /\ l_in' = l_file
    /\ l_out' = load_config(l_file)
    /\ l_prev' = [called |-> l_called, in |-> l_in, out |-> l_out]
    /\ l_file' = IF l_file.exists THEN l_file ELSE toml_load(toml_dump(DEFAULT_CONFIG))
    /\ UNCHANGED <<config, net, matchVars, applyVars, reactorVars, settingsVars,
                   vpnVars, cacheVars, envVars, shellVars>>

NextLoad == LoadConfig

SpecLoad == InitLoad /\ [][NextLoad]_vars

\* ---------------------------------------------------------------------------
\* Specification of update_shell_proxy_configuration
\* (src/network/shell_proxy.py): calls one after the other, any of the three
\* writes may raise; unlink of an existing file succeeds
\* ---------------------------------------------------------------------------
\* The proxy_url values of the model and what the PAC parser may return for
\* a PAC URL (None on a failed download or parse).
ShellProxyUrls ==
    {"", "none", "http://proxy.co:8080", "proxy.co:8080", "http://wpad/wpad.dat",
     "http://proxy.company.com/proxy.pac"}

PacResults == {NoneVal, "DIRECT", "http://pac.proxy:3128"}

\* proxy_url.endswith((".pac", ".dat"))
EndsWithPac(url) == url \in {"http://wpad/wpad.dat", "http://proxy.company.com/proxy.pac"}

\* if "://" not in proxy_url: proxy_url = f"http://{proxy_url}"
WithScheme(url) == IF url = "proxy.co:8080" THEN "http://proxy.co:8080" ELSE url

\* parse_proxy_config, by the http_proxy value of the dictionary it returns
\* (None when there is no proxy).
parse_proxy_config(proxy_url, pac) ==
    IF proxy_url = "" \/ proxy_url = NoneVal \/ proxy_url = "none" THEN NoneVal
    ELSE IF EndsWithPac(proxy_url)
         THEN IF Truthy(pac) /\ pac # "DIRECT" THEN WithScheme(pac) ELSE NoneVal
    ELSE WithScheme(proxy_url)

\* Mutant: with no proxy the writer leaves an existing file alone.
Mut_write_proxy_env(files, f, proxy_config) ==
    IF proxy_config # NoneVal THEN [files EXCEPT ![f] = proxy_config] ELSE files

\* write_bash_proxy_env, write_csh_proxy_env, write_fish_proxy_env: with a
\* proxy the file is replaced by the new text, without one it is deleted.
write_proxy_env(files, f, proxy_config) ==
    IF proxy_config # NoneVal THEN [files EXCEPT ![f] = proxy_config]
    ELSE [files EXCEPT ![f] = NoneVal]

cleanup_shell_proxy_files(files) == [f \in DOMAIN files |-> NoneVal]

\* write_all_shell_proxy_files up to the write that raises (failing = 0: none
\* does); raised tells whether one did.
RECURSIVE WriteAll(_, _, _, _)
WriteAll(files, proxy_config, failing, i) ==
    IF i > Len(ShellFiles) THEN [files |-> files, raised |-> FALSE]
    ELSE IF i = failing /\ proxy_config # NoneVal THEN [files |-> files, raised |-> TRUE]
    ELSE WriteAll(write_proxy_env(files, ShellFiles[i], proxy_config), proxy_config, failing, i + 1)

\* update_shell_proxy_configuration: parse, write the three files, and on
\* any exception remove all three.
UpdateShellProxyFiles(files, proxy_url, pac, failing) ==
    LET proxy_config == parse_proxy_config(proxy_url, pac)
        written == WriteAll(files, proxy_config, failing, 1)
    IN  IF written.raised THEN cleanup_shell_proxy_files(written.files) ELSE written.files

\* What an earlier run may have left: each file absent or holding the proxy
\* of an earlier location.
InitShell ==
    /\ config \in ReactorConfigs
    /\ net = NetOffline
    /\ MatchIdle
    /\ ApplyIdle
    /\ ReactorIdle
    /\ SettingsIdle /\ VpnIdle /\ CacheIdle /\ EnvIdle /\ LoadIdle
    /\ p_files \in [Range(ShellFiles) -> {NoneVal, "http://old.proxy:8080"}]
    /\ p_called = FALSE
    /\ p_in = NoShellCall

UpdateShellProxy ==
    \E proxy_url \in ShellProxyUrls, pac \in PacResults, failing \in 0..Len(ShellFiles) :
        /\ p_called' = TRUE
        /\ p_in' = [proxy_url |-> proxy_url, pac |-> pac, failing |-> failing, before |-> p_files]
        /\ p_files' = UpdateShellProxyFiles(p_files, proxy_url, pac, failing)
        /\ UNCHANGED <<config, net, matchVars, applyVars, reactorVars, settingsVars,
                       vpnVars, cacheVars, envVars, loadVars>>

NextShell == UpdateShellProxy

SpecShell == InitShell /\ [][NextShell]_vars

\* ---------------------------------------------------------------------------
\* Properties of the matcher
\* ---------------------------------------------------------------------------
Min(S) == CHOOSE x \in S : \A y \in S : x <= y

Locs == config.locations
NonDefaultIdx == {i \in 1..Len(Locs) : Locs[i].name # "default"}
ProxyIdx == {i \in NonDefaultIdx : Locs[i].proxy_url # ""}
SsidIdx == {i \in NonDefaultIdx : m_in.ssid \in Range(Locs[i].ssids)}
SsidIdxAll == {i \in 1..Len(Locs) : m_in.ssid \in Range(Locs[i].ssids)}
CorporateIdx == {i \in NonDefaultIdx : Locs[i].ntp_server \notin {"", PublicNtp}}
DomainIdx ==
    {i \in NonDefaultIdx :
        Range(Locs[i].dns_search_domains) \cap Range(m_in.search_domains) # {}}
HomeIdx ==
    {i \in NonDefaultIdx :
        Locs[i].proxy_url = "" /\ Len(Locs[i].dns_search_domains) <= 2}

\* C1: with VPN active and at least one non-default profile carrying a
\* proxy_url, the matcher returns the first such profile in declaration order,
\* and the returned profile has a proxy_url.
ThmC1 ==
    (m_called /\ m_in.vpn_active /\ ProxyIdx # {}) =>
        /\ m_out = Locs[Min(ProxyIdx)].name
        /\ \A i \in 1..Len(Locs) : Locs[i].name = m_out => Locs[i].proxy_url # ""

\* A call on VPN where a corporate-NTP profile without proxy is declared
\* before the first profile with a proxy.
WitC1 ==
    /\ m_called /\ m_in.vpn_active /\ ProxyIdx # {}
    /\ \E i \in CorporateIdx : i < Min(ProxyIdx)
    /\ m_out = Locs[Min(ProxyIdx)].name

\* C2 as amended: off VPN with a non-empty SSID, if some non-default profile
\* lists the SSID the matcher returns the first non-default profile listing
\* it, whatever the search-domain and home-like rules would pick.
ThmC2 ==
    (m_called /\ ~m_in.vpn_active /\ Truthy(m_in.ssid) /\ SsidIdx # {}) =>
        m_out = Locs[Min(SsidIdx)].name

\* Two non-default profiles list the SSID and the other rules prefer a
\* different profile than the first of them.
WitC2 ==
    /\ m_called /\ ~m_in.vpn_active /\ Truthy(m_in.ssid)
    /\ Cardinality(SsidIdx) = 2
    /\ DomainIdx # {} /\ Min(DomainIdx) # Min(SsidIdx)
    /\ HomeIdx # {} /\ Min(HomeIdx) # Min(SsidIdx)
    /\ m_out = Locs[Min(SsidIdx)].name

\* C2 as originally stated: off VPN with a non-empty SSID, if some profile
\* (the "default" profile included) lists the SSID the matcher returns the
\* first profile listing it.
CexC2 ==
    (m_called /\ ~m_in.vpn_active /\ Truthy(m_in.ssid) /\ SsidIdxAll # {}) =>
        m_out = Locs[Min(SsidIdxAll)].name

\* The non-default profile at index i satisfies a rule of the cascade that
\* applies in the VPN state of snapshot snap.
EligibleIn(snap, i) ==
    /\ Locs[i].name # "default"
    /\ IF snap.vpn_active
       THEN Locs[i].proxy_url # "" \/ Locs[i].ntp_server \notin {"", PublicNtp}
       ELSE \/ Truthy(snap.ssid) /\ snap.ssid \in Range(Locs[i].ssids)
            \/ Range(Locs[i].dns_search_domains) \cap Range(snap.search_domains) # {}
            \/ Locs[i].proxy_url = "" /\ Len(Locs[i].dns_search_domains) <= 2

Eligible(i) == EligibleIn(m_in, i)

\* C8: the matcher returns "default" or the name of a non-default profile of
\* the configuration, a returned profile satisfies a rule applicable to the
\* VPN state, and "default" is returned when no non-default profile does.
ThmC8 ==
    m_called =>
        /\ \/ m_out = "default"
           \/ \E i \in NonDefaultIdx : Locs[i].name = m_out /\ Eligible(i)
        /\ (\A i \in NonDefaultIdx : ~Eligible(i)) => m_out = "default"

\* The spec's scenario: no SSID, no VPN, no search domains, and the only
\* non-default profiles are not home-like.
WitC8 ==
    /\ m_called /\ ~m_in.vpn_active /\ m_in.ssid = NoneVal
    /\ m_in.search_domains = <<>>
    /\ Cardinality(NonDefaultIdx) = 2 /\ HomeIdx = {}
    /\ m_out = "default"

\* C9: with VPN active and no non-default profile carrying a proxy_url, the
\* matcher returns the first non-default profile whose ntp_server is set and
\* is not time.apple.com, and "default" if there is none.
ThmC9 ==
    (m_called /\ m_in.vpn_active /\ ProxyIdx = {}) =>
        m_out = IF CorporateIdx # {} THEN Locs[Min(CorporateIdx)].name ELSE "default"

\* On VPN, no proxy anywhere, a profile with the public time server is
\* declared before the one with a corporate time server.
WitC9 ==
    /\ m_called /\ m_in.vpn_active /\ ProxyIdx = {}
    /\ CorporateIdx # {}
    /\ \E i \in NonDefaultIdx : i < Min(CorporateIdx) /\ Locs[i].ntp_server = PublicNtp
    /\ m_out = Locs[Min(CorporateIdx)].name

\* The SSID rule selects nothing: it does not run, or no profile lists the SSID.
NoSsidMatch == ~Truthy(m_in.ssid) \/ SsidIdx = {}

\* C23: off VPN, when neither the SSID rule nor the search-domain rule
\* selects a profile, the matcher returns the first non-default profile with
\* no proxy_url and at most two dns_search_domains entries, and "default" if
\* there is no such profile.
ThmC23 ==
    (m_called /\ ~m_in.vpn_active /\ NoSsidMatch /\ DomainIdx = {}) =>
        m_out = IF HomeIdx # {} THEN Locs[Min(HomeIdx)].name ELSE "default"

\* The first non-default profile has three search domains and the second
\* exactly two, neither has a proxy, and the current domains match neither.
WitC23 ==
    /\ m_called /\ ~m_in.vpn_active /\ NoSsidMatch /\ DomainIdx = {}
    /\ m_in.search_domains # <<>>
    /\ \E i, j \in NonDefaultIdx :
          /\ i < j
          /\ \A k \in NonDefaultIdx : k >= i
          /\ Len(Locs[i].dns_search_domains) = 3 /\ Locs[i].proxy_url = ""
          /\ Len(Locs[j].dns_search_domains) = 2 /\ Locs[j].proxy_url = ""
          /\ m_out = Locs[j].name

\* C24: off VPN, when the SSID rule selects nothing and the current search
\* domains are non-empty, the matcher returns the first non-default profile
\* whose dns_search_domains shares an element with them, whatever the
\* home-like rule would pick.
ThmC24 ==
    (m_called /\ ~m_in.vpn_active /\ NoSsidMatch /\ m_in.search_domains # <<>>
     /\ DomainIdx # {}) =>
        m_out = Locs[Min(DomainIdx)].name

\* A home-like profile is declared before the first profile that shares a
\* domain with the current ones, and that profile is not home-like.
WitC24 ==
    /\ m_called /\ ~m_in.vpn_active /\ NoSsidMatch
    /\ DomainIdx # {} /\ HomeIdx # {}
    /\ Min(HomeIdx) < Min(DomainIdx)
    /\ Min(DomainIdx) \notin HomeIdx
    /\ Cardinality(Range(Locs[Min(DomainIdx)].dns_search_domains)
                   \cap Range(m_in.search_domains)) = 1
    /\ Len(m_in.search_domains) = 2
    /\ m_out = Locs[Min(DomainIdx)].name

\* C30: the location returned for a call with vpn_active true is the one
\* returned for every other call with vpn_active true on the same
\* configuration, whatever the SSID and the search domains of the two calls.
ThmC30 ==
    (m_called /\ m_in.vpn_active) =>
        \A s \in Snapshots :
            s.vpn_active =>
                find_matching_location(config, s.ssid, s.search_domains, TRUE) = m_out

\* On VPN, the first non-default profile lists the SSID and shares a domain
\* with the current search domains, and the matcher returns another profile.
WitC30 ==
    /\ m_called /\ m_in.vpn_active
    /\ Truthy(m_in.ssid) /\ SsidIdx # {} /\ DomainIdx # {}
    /\ Min(SsidIdx) = Min(NonDefaultIdx) /\ Min(DomainIdx) = Min(NonDefaultIdx)
    /\ m_out \notin {Locs[Min(SsidIdx)].name, Locs[Min(DomainIdx)].name}
    /\ m_out # "default"

\* ---------------------------------------------------------------------------
\* Properties of apply_location_settings
\* ---------------------------------------------------------------------------
\* The commands of kind op among cmds that act on target.
CmdsOf(cmds, op, target) ==
    SelectSeq(cmds, LAMBDA c : c.op = op /\ c.target = target)

NoRepeats(s) == \A p, q \in 1..Len(s) : s[p] = s[q] => p = q

FirstIdx(s, x) == Min({i \in 1..Len(s) : s[i] = x})

SettingsLive == s_in.net.domains[s_in.interface_name]

SettingsSearchCmds == CmdsOf(s_out, "-setsearchdomains", s_in.service_name)

\* C11: off VPN, with skip_dns false, a non-empty profile list C and a
\* non-empty live list L, the one list handed to set_search_domains holds
\* exactly the elements of C and the elements of L with a local suffix, each
\* once, C's elements first and every element in the order of its first
\* occurrence in C followed by L.
ThmC11 ==
    (/\ s_called
     /\ ~s_in.skip_dns
     /\ ~s_in.vpn_active
     /\ s_in.location_config.dns_search_domains # <<>>
     /\ SettingsLive # <<>>) =>
        LET C == s_in.location_config.dns_search_domains
            L == SettingsLive
        IN  /\ Len(SettingsSearchCmds) = 1
            /\ LET a == SettingsSearchCmds[1].args
               IN  /\ NoRepeats(a)
                   /\ Range(a) = Range(C) \cup {d \in Range(L) : EndsWithLocalSuffix(d)}
                   /\ \A p, q \in 1..Len(a) :
                         p < q => FirstIdx(C \o L, a[p]) < FirstIdx(C \o L, a[q])

\* The example of the claim: C = [corp.com], L = [corp.com, home.arpa].
WitC11 ==
    /\ s_called
    /\ ~s_in.skip_dns
    /\ ~s_in.vpn_active
    /\ s_in.location_config.dns_search_domains = <<"corp.com">>
    /\ SettingsLive = <<"corp.com", "home.arpa">>
    /\ SettingsSearchCmds[1].args = <<"corp.com", "home.arpa">>

\* C25: with skip_dns false, a profile without search domains hands the live
\* list to set_search_domains as it is (and "Empty" when the live list is
\* empty); a profile with domains C, on VPN or with an empty live list L,
\* hands over the elements of C and L, each once, in the order of their first
\* occurrence in C followed by L.
ThmC25 ==
    (s_called /\ ~s_in.skip_dns) =>
        LET C == s_in.location_config.dns_search_domains
            L == SettingsLive
        IN  /\ C = <<>> =>
                  /\ Len(SettingsSearchCmds) = 1
                  /\ SettingsSearchCmds[1].args = IF L = <<>> THEN <<"Empty">> ELSE L
            /\ (C # <<>> /\ (s_in.vpn_active \/ L = <<>>)) =>
                  /\ Len(SettingsSearchCmds) = 1
                  /\ LET a == SettingsSearchCmds[1].args
                     IN  /\ NoRepeats(a)
                         /\ Range(a) = Range(C) \cup Range(L)
                         /\ \A p, q \in 1..Len(a) :
                               p < q => FirstIdx(C \o L, a[p]) < FirstIdx(C \o L, a[q])

\* On VPN the profile's corp.com is followed by the live domains that are
\* not local ones, the repeated corp.com dropped.
WitC25 ==
    /\ s_called
    /\ ~s_in.skip_dns
    /\ s_in.vpn_active
    /\ s_in.location_config.dns_search_domains = <<"corp.com", "corp.com">>
    /\ SettingsLive = <<"old.corp.com", "printer.local", "corp.com">>
    /\ SettingsSearchCmds[1].args = <<"corp.com", "old.corp.com", "printer.local">>

DnsOps == {"-setsearchdomains", "-setdnsservers"}

\* The positions in cmds of the commands of kind op acting on target.
CmdIdx(cmds, ops, targets) ==
    {i \in 1..Len(cmds) : cmds[i].op \in ops /\ cmds[i].target \in targets}

\* The commands a cycle handed to run_command, and what it worked with.
CycleCmds == [i \in 1..Len(c_out.calls) |-> c_out.calls[i].cmd]
CycleServices == {c_in.net.services[j][1] : j \in 1..Len(c_in.net.services)}
CycleProfile == config.locations[LocationIndex(config, c_out.location_name)]
CycleApplied == c_called /\ c_in.apply /\ c_out.location_name # "Unknown"

\* C12: a call of apply_location_settings with skip_dns true issues no
\* search-domain and no DNS-server command and still runs the proxy step; an
\* applying cycle runs the DNS steps of its services exactly when the VPN is
\* not active, runs the proxy step of every service either way, and applies
\* the profile's printer and NTP server after the services' commands.
ThmC12 ==
    /\ (s_called /\ s_in.skip_dns) =>
          /\ CmdIdx(s_out, DnsOps, {s_in.service_name}) = {}
          /\ CmdIdx(s_out, {"-setproxybypassdomains"}, {s_in.service_name}) # {}
          /\ Truthy(s_in.proxy_result)
                => CmdIdx(s_out, {"-setwebproxy"}, {s_in.service_name}) # {}
    /\ CycleApplied =>
          /\ c_out.vpn_active = IsTunnel(c_in.net.default_iface)
          /\ \A sv \in CycleServices :
                /\ (CmdIdx(CycleCmds, {"-setsearchdomains"}, {sv}) = {}) = c_out.vpn_active
                /\ c_out.vpn_active => CmdIdx(CycleCmds, DnsOps, {sv}) = {}
                /\ CmdIdx(CycleCmds, {"-setproxybypassdomains"}, {sv}) # {}
          /\ (CmdIdx(CycleCmds, {"lpadmin -d"}, {CycleProfile.printer}) # {})
                = Truthy(CycleProfile.printer)
          /\ (CmdIdx(CycleCmds, {"-setnetworktimeserver"}, {"systemsetup"}) # {})
                = Truthy(CycleProfile.ntp_server)
          /\ \A i \in CmdIdx(CycleCmds, {"lpadmin -d", "-setnetworktimeserver"},
                             {CycleProfile.printer, "systemsetup"}) :
                \A j \in 1..Len(CycleCmds) :
                    CycleCmds[j].target \in CycleServices => j < i

\* An applying cycle under VPN: no DNS command, the proxy, printer and NTP set.
WitC12 ==
    /\ CycleApplied
    /\ c_out.vpn_active
    /\ CycleServices # {}
    /\ CmdIdx(CycleCmds, DnsOps, CycleServices) = {}
    /\ CmdIdx(CycleCmds, {"-setwebproxy"}, CycleServices) # {}
    /\ CmdIdx(CycleCmds, {"lpadmin -d"}, {"Office_Printer"}) # {}
    /\ CmdIdx(CycleCmds, {"-setnetworktimeserver"}, {"systemsetup"}) # {}

\* What the cycle would issue and return on c_in.net if nothing failed.
CycleUnfailed == check_and_apply_location_settings(config, c_in.apply, FALSE, c_in.net)

\* C17: when one command of an applying cycle fails, by a non-zero exit
\* status or a missing binary, every command of the failure-free cycle is
\* still handed to run_command, in the same order, only the failing one is
\* unsuccessful, and the cycle returns the location it matched.
ThmC17 ==
    (c_called /\ c_in.apply /\ c_in.failing > 0) =>
        /\ CycleCmds = CycleUnfailed.cmds
        /\ \A i \in 1..Len(c_out.calls) : c_out.calls[i].ok = (i # c_in.failing)
        /\ c_out.location_name = CycleUnfailed.location_name
        /\ c_out.location_name =
              find_matching_location(config, c_in.net.ssid,
                  c_in.net.domains[c_in.net.primary[2]], c_out.vpn_active)

\* The first service's search-domain command fails for a missing binary; the
\* second service, the printer, the NTP server and the shell files follow.
WitC17 ==
    /\ c_called
    /\ c_in.apply
    /\ c_in.failing = 1
    /\ c_in.how = "missing"
    /\ c_out.location_name = "Office"
    /\ CycleCmds[1].op = "-setsearchdomains"
    /\ ~c_out.calls[1].ok
    /\ CmdIdx(CycleCmds, {"-setsearchdomains"}, {"Ethernet"}) # {}
    /\ CmdIdx(CycleCmds, {"lpadmin -d"}, {"Office_Printer"}) # {}
    /\ CmdIdx(CycleCmds, {"-setnetworktimeserver"}, {"systemsetup"}) # {}
    /\ CycleCmds[Len(CycleCmds)].op = "update_shell_proxy_configuration"

\* The active services, their live search domains and the VPN flag a cycle saw.
CycleSnapshot ==
    [services |-> c_in.net.services,
     domains |-> [j \in 1..Len(c_in.net.services) |->
                     c_in.net.domains[c_in.net.services[j][2]]],
     vpn_active |-> c_out.vpn_active]

\* C18: an applying cycle that follows an applying cycle, matches the same
\* profile and sees the same active services, live search domains and VPN
\* flag hands the same command sequence to run_command as the one before.
ThmC18 ==
    [][(/\ c_called /\ c_in.apply
        /\ c_called' /\ c_in'.apply
        /\ c_out'.location_name = c_out.location_name
        /\ CycleSnapshot' = CycleSnapshot) => CycleCmds' = CycleCmds]_vars

\* The Office profile applied twice off VPN on an unchanged snapshot.
WitC18 ==
    /\ c_repeat
    /\ c_out.location_name = "Office"
    /\ ~c_out.vpn_active
    /\ CmdIdx(CycleCmds, {"-setsearchdomains"}, CycleServices) # {}

\* ---------------------------------------------------------------------------
\* Properties of the VPN detection
\* ---------------------------------------------------------------------------
\* The default route is on a tunnel interface that carries a DNS resolver.
TunnelWithResolver ==
    /\ Truthy(v_in.net.default_iface)
    /\ IsTunnel(v_in.net.default_iface)
    /\ v_in.net.default_iface \in v_in.resolvers

\* C14: the VPN flag the evaluation works with is true if and only if the
\* default route is on a utun interface that carries an active DNS resolver
\* entry.
CexC14 ==
    v_called => /\ v_out.detection = TunnelWithResolver
                /\ v_out.cycle = TunnelWithResolver

\* ---------------------------------------------------------------------------
\* Properties of the network-state cache
\* ---------------------------------------------------------------------------
Max(S) == CHOOSE x \in S : \A y \in S : x >= y

\* The set_cached call, among the first n since the last clear_cache, that
\* started the current epoch: the first one, or the first one made when the
\* epoch before it was CACHE_TIMEOUT old (0: there is none).
RECURSIVE EpochStart(_, _)
EpochStart(log, n) ==
    IF n = 0 THEN 0
    ELSE LET e == EpochStart(log, n - 1)
         IN  IF e = 0 \/ log[n].time - log[e].time >= CACHE_TIMEOUT THEN n ELSE e

\* C19: get_cached(k) returns the value of the last set_cached(k, v) of the
\* current epoch if that epoch, started after the most recent clear_cache, is
\* younger than CACHE_TIMEOUT, and the default otherwise: after clear_cache,
\* once the epoch has expired, and for a key only stored in an earlier epoch.
ThmC19 ==
    k_out.called =>
        LET e == EpochStart(k_log, Len(k_log))
            fresh == e > 0 /\ now - k_log[e].time < CACHE_TIMEOUT
            stored == {i \in e..Len(k_log) : i > 0 /\ k_log[i].key = k_out.key}
        IN  IF fresh /\ stored # {}
            THEN k_out.value = k_log[Max(stored)].value
            ELSE k_out.value = NoneVal

\* A key stored in an epoch that expired is asked for after a set_cached of
\* another key started a new epoch: the default is returned.
WitC19 ==
    /\ k_out.called
    /\ k_out.key = "ssid"
    /\ k_out.value = NoneVal
    /\ Len(k_log) = 2
    /\ k_log[1].key = "ssid"
    /\ k_log[2].key = "dns"
    /\ k_log[2].time - k_log[1].time >= CACHE_TIMEOUT
    /\ now - k_log[2].time < CACHE_TIMEOUT

\* ---------------------------------------------------------------------------
\* Properties of load_config
\* ---------------------------------------------------------------------------
\* C20: in the configuration load_config returns no location has the key
\* "domains"; a location of the file with "domains" and without
\* "dns_search_domains" has dns_search_domains equal to the legacy value, and
\* one with both keys has the dns_search_domains of the file.
ThmC20 ==
    l_called =>
        /\ \A i \in 1..Len(l_out.locations) : "domains" \notin DOMAIN l_out.locations[i]
        /\ (l_in.exists /\ l_in.has_locations) =>
              /\ Len(l_out.locations) = Len(l_in.locations)
              /\ \A i \in 1..Len(l_in.locations) :
                    LET raw == l_in.locations[i]
                        loaded == l_out.locations[i]
                    IN  "domains" \in DOMAIN raw =>
                            /\ "dns_search_domains" \in DOMAIN loaded
                            /\ loaded["dns_search_domains"] =
                                   IF "dns_search_domains" \in DOMAIN raw
                                   THEN raw["dns_search_domains"]
                                   ELSE raw["domains"]

\* A file whose first location has only the legacy key and whose second has
\* both keys, with different values.
WitC20 ==
    /\ l_called
    /\ Len(l_in.locations) = 2
    /\ DOMAIN l_in.locations[1] = {"name", "domains"}
    /\ l_in.locations[1]["domains"] = <<"old.com">>
    /\ l_out.locations[1]["dns_search_domains"] = <<"old.com">>
    /\ {"domains", "dns_search_domains"} \subseteq DOMAIN l_in.locations[2]
    /\ l_in.locations[2]["domains"] = <<"old.com">>
    /\ l_out.locations[2]["dns_search_domains"] = <<"corp.com">>

ShellPresent == {f \in Range(ShellFiles) : p_files[f] # NoneVal}

ShellResolved == parse_proxy_config(p_in.proxy_url, p_in.pac)

SeenByCall ==
    [ssid |-> a_net.ssid,
     search_domains |-> IF a_net.primary[2] = NoneVal THEN <<>>
                        ELSE a_net.domains[a_net.primary[2]],
     vpn_active |-> a_net.default_iface \in {"utun3"}]

NoRuleMatches == \A i \in 1..Len(Locs) : ~EligibleIn(SeenByCall, i)

\* C7: when the matcher's result is not a key of the configured locations
\* (no rule matched and there is no "default" profile), the call returns
\* "Unknown" and issues no command at all, with apply set or not.
ThmC7 ==
    (a_called /\ NoRuleMatches /\ \A i \in 1..Len(Locs) : Locs[i].name # "default") =>
        /\ a_out.location_name = "Unknown"
        /\ a_out.vpn_active = SeenByCall.vpn_active
        /\ a_out.cmds = <<>>

\* An applying call on a network with active services, under a configuration
\* that has profiles but none named "default".
WitC7 ==
    /\ a_called /\ a_args.apply
    /\ config.locations # <<>> /\ ~HasLocation(config, "default")
    /\ NoRuleMatches
    /\ a_net.services # <<>>
    /\ a_out.location_name = "Unknown"

\* C10: after a profile with an empty dns_servers list was applied to a
\* service, the service has no manually configured DNS servers (DHCP is in
\* control), and no -setdnsservers command carries an empty server list.
CexC10 ==
    /\ \A s \in Services : dns_applied[s] = "empty" => os_dns[s] = <<>>
    /\ \A i \in 1..Len(a_out.cmds) :
           a_out.cmds[i].op = "-setdnsservers" => a_out.cmds[i].args # <<>>

\* C28: a call that found no primary interface or service returns
\* ("Unknown", False, None) and issues no command.
CexC28 ==
    (a_called /\ get_primary_service_interface(a_net) = NoPrimary) =>
        /\ a_out.location_name = "Unknown"
        /\ a_out.vpn_active = FALSE
        /\ a_out.vpn_details = NoneVal
        /\ a_out.cmds = <<>>

\* ---------------------------------------------------------------------------
\* Properties of the change reactor
\* ---------------------------------------------------------------------------
\* No callback is running and no timer is pending or running.
Quiescent ==
    /\ cb_pc = "idle"
    /\ \A t \in TimerIds : timer[t].pc \in {"unused", "dead"}

\* C3: once a burst of N >= 1 notifications, each of which arrived before the
\* timer started by the previous one had fired, has been worked off, the
\* notifications' timers have entered the cycle body exactly once.
CexC3 ==
    (Quiescent /\ n_notifs >= 1 /\ burst_ok) => n_evals = 1

\* C4: a notification that arrives while is_evaluating is true returns at
\* once: no timer is cancelled, created or restarted, the callback is not
\* left pending, no application state changes, and the timer such a
\* notification would have started is never started afterwards.
ThmC4 ==
    [][/\ (n_notifs' = n_notifs + 1 /\ is_evaluating) =>
              /\ timer' = timer
              /\ cb_pc' = "idle"
              /\ UNCHANGED <<appVars, _cache, n_evals>>
       /\ \A k \in NotifTimers :
              (k <= n_notifs /\ timer[k].pc = "unused") => timer'[k].pc = "unused"
      ]_vars

\* A notification has just been dropped: the evaluation is still in progress
\* and the timer the notification would have started does not exist.
WitC4 ==
    /\ cb_pc = "idle" /\ is_evaluating
    /\ n_notifs >= 1 /\ timer[n_notifs + 1].pc = "unused"
    /\ \E t \in TimerIds : timer[t].pc \in {"apply", "resolver", "finally"}

\* The positions of a timer thread inside the try block of
\* evaluate_network_state, after is_evaluating was set.
InTry == {"apply", "resolver", "finally"}

NoCycleRunning ==
    \A t \in TimerIds : timer[t].pc \notin {"set", "apply", "resolver", "finally"}

CexC15 ==
    [][\A t \in NotifTimers :
          (timer[t].pc = "check" /\ timer'[t].pc = "set") => config = config_file]_vars

\* C16: no cycle body leaves evaluate_network_state with an exception: a
\* thread that reaches the finally block has no exception pending.
CexC16 ==
    \A t \in TimerIds : timer[t].pc = "finally" => timer[t].outcome # "raised"

CexC27 ==
    /\ Cardinality({t \in TimerIds : timer[t].pc \in InTry}) <= 1
    /\ (\E t \in TimerIds : timer[t].pc \in InTry) => is_evaluating

\* What a cycle on the network state n would apply and track.
SelectedFor(n) == check_and_apply_location_settings(config, FALSE, FALSE, n).location_name

====
